---- MODULE Spec2Model ----
(***************************************************************************)
(* Persistent terminal-session core of cmdr-code, modelled from            *)
(* src/src/session_persistence.c, session_persistence.h and server.h:      *)
(* the circular scrollback buffer, the session record, the on-disk codec,  *)
(* the session registry, the maintenance loop and the connection glue.     *)
(*                                                                         *)
(* Sizes and durations of the program are scaled down (1 MiB becomes a     *)
(* few bytes, hours become a few clock ticks); the scaled values are the   *)
(* Scaled* definitions below and every comparison the code makes is kept.  *)
(***************************************************************************)
EXTENDS Integers, Sequences, FiniteSets, TLC

---------------------------------------------------------------------------
(* Bounds of the model *)

\* scaled value of MAX_BUFFER_SIZE (1024 * 1024 in the program)
ScaledBufferSize == 3
\* number of distinct byte values a PTY chunk is drawn from
NumByteValues == 2
\* total number of bytes appended to the stand-alone buffer of SpecBuf
MaxInput == 5
\* total number of bytes ingested by the record of SpecCodec
MaxCodecBytes == 4
\* number of checkpoints one record may take (caps save_count)
MaxSaves == 1
\* number of clock ticks after the start of the run
MaxTime == 1
\* scaled value of PERSISTENCE_SAVE_INTERVAL (30 s in the program)
ScaledSaveInterval == 0
\* scaled value of the cleanup interval (3600 s in the program)
ScaledCleanupInterval == 0
\* scaled value of the default max_inactive_age (7 * 24 * 3600 s in the program)
ScaledMaxInactiveAge == 0
\* scaled value of the default max_sessions (100 in the program)
ScaledMaxSessions == 1
\* number of records the registry may hold at once
MaxRecords == 2
\* number of client connections
NumConns == 2
\* total number of bytes one session of Spec ingests
MaxSessionBytes == 1
\* scaled value of the replay chunk size (8192 bytes in the program)
ScaledChunkSize == 2
\* max_inactive_age the registry of SpecCap is configured with
CapMaxInactiveAge == 1
\* total number of bytes the session of SpecReplay ingests
MaxReplayBytes == 4
\* number of checkpoints of the session of SpecReplay
MaxReplaySaves == 2
\* number of checkpoints of the session of SpecCrash
MaxCrashSaves == 2
\* number of bytes the restored record of SpecResume ingests
MaxResumeBytes == 4
\* highest SESSION_VERSION a state file of SpecLoad carries (1 is the only
\* version this program writes)
MaxVersion == 2

---------------------------------------------------------------------------
(* Program constants *)

MAX_BUFFER_SIZE == ScaledBufferSize
PERSISTENCE_SAVE_INTERVAL == ScaledSaveInterval
CLEANUP_INTERVAL == ScaledCleanupInterval
DEFAULT_MAX_INACTIVE_AGE == ScaledMaxInactiveAge
DEFAULT_MAX_SESSIONS == ScaledMaxSessions
REPLAY_CHUNK_SIZE == ScaledChunkSize

\* byte values; 0 stands for a byte of the malloc'ed array never written
Bytes == 1..NumByteValues
UNWRITTEN == 0

\* a NULL pointer (connections and records are numbered from 1)
NULL == 0
\* a pointer to a record that was freed: what it points at is no longer a record
DANGLING == -1
\* a NULL char*: no real string holds this element
NULL_STR == <<"(null)">>

SESSION_STATE_DIR == "/tmp/cmdr-sessions"
\* a state directory other than the default one
ALT_STATE_DIR == "/var/lib/cmdr"
\* the one-byte tag of a server message that carries terminal output
OUTPUT == "0"
SESSION_ID_LENGTH == 36
\* session_error_t
SESSION_ERROR_NONE == 0
SESSION_ERROR_IO == 2

\* C strings are sequences of characters
STR_BASH == <<"/","b","i","n","/","b","a","s","h">>
STR_UNNAMED == <<"U","n","n","a","m","e","d"," ","S","e","s","s","i","o","n">>
STR_RESTORED == <<"R","e","s","t","o","r","e","d"," ","S","e","s","s","i","o","n">>
STR_BUILD == <<"B","u","i","l","d">>
STR_TMP == <<"/","t","m","p">>
\* getenv("HOME")
STR_HOME == <<"/","r","o","o","t">>
DOT_STATE == <<".","s","t","a","t","e">>

\* a canonical UUID-shaped id (36 characters) and a legacy-shaped id
ID_UUID_1 == <<"1","2","3","e","4","5","6","7","-","e","8","9","b","-","4","2","d","3","-",
               "a","4","5","6","-","4","2","6","6","1","4","1","7","4","0","0","0">>
ID_LEGACY == <<"d","e","v","_","1">>

\* time(NULL) at the start of the run: later than every interval of the program
StartTime == 10

---------------------------------------------------------------------------
(* Helpers *)

Min(a, b) == IF a < b THEN a ELSE b

\* the last n elements of s
LastN(s, n) == SubSeq(s, Len(s) - n + 1, Len(s))

\* all sequences over S of length lo..hi
SeqsOfLen(S, lo, hi) == UNION {[1..n -> S] : n \in lo..hi}

\* memcpy(dst + dstOff, src + srcOff, n) on 0-based offsets
Memcpy(dst, dstOff, src, srcOff, n) ==
    [i \in 1..Len(dst) |->
        IF i - 1 >= dstOff /\ i - 1 < dstOff + n
        THEN src[srcOff + (i - 1 - dstOff) + 1]
        ELSE dst[i]]

---------------------------------------------------------------------------
(* Circular buffer: terminal_buffer_t *)

terminal_buffer_create(capacity) ==
    [data |-> [i \in 1..capacity |-> UNWRITTEN],
     capacity |-> capacity,
     size |-> 0,
     head |-> 0,
     is_full |-> FALSE]

\* AppendOversize with the head of the input kept instead of its tail
AppendOversize_KeepsHead(buffer, data) ==
    [buffer EXCEPT
        !.data = Memcpy(buffer.data, 0, data, 0, buffer.capacity),
        !.size = buffer.capacity,
        !.head = 0,
        !.is_full = TRUE]

\* the n >= capacity branch: keep the tail of the input
AppendOversize(buffer, data) ==
    [buffer EXCEPT
        !.data = Memcpy(buffer.data, 0, data, Len(data) - buffer.capacity, buffer.capacity),
        !.size = buffer.capacity,
        !.head = 0,
        !.is_full = TRUE]

\* the wrap-around branch: head + length > capacity
AppendWrap(buffer, data) ==
    LET first_chunk == buffer.capacity - buffer.head
        d1 == Memcpy(buffer.data, buffer.head, data, 0, first_chunk)
        d2 == Memcpy(d1, 0, data, first_chunk, Len(data) - first_chunk)
    IN  [buffer EXCEPT
            !.data = d2,
            !.head = Len(data) - first_chunk,
            !.is_full = TRUE,
            !.size = buffer.capacity]

\* the simple branch: the chunk fits between head and the end of the array
AppendSimple(buffer, data) ==
    LET h == buffer.head + Len(data)
    IN  [buffer EXCEPT
            !.data = Memcpy(buffer.data, buffer.head, data, 0, Len(data)),
            !.head = h,
            !.size = IF ~buffer.is_full THEN h ELSE buffer.size]

\* terminal_buffer_append(buffer, data, length) with length = Len(data);
\* a call with length = 0 returns false and leaves the buffer alone
terminal_buffer_append(buffer, data) ==
    IF Len(data) = 0 THEN buffer
    ELSE IF Len(data) >= buffer.capacity THEN AppendOversize(buffer, data)
    ELSE IF buffer.head + Len(data) > buffer.capacity THEN AppendWrap(buffer, data)
    ELSE AppendSimple(buffer, data)

\* terminal_buffer_get_contents: the linearised contents, *length = size
terminal_buffer_get_contents(buffer) ==
    IF buffer.size = 0 THEN <<>>
    ELSE IF buffer.is_full /\ buffer.head > 0
         THEN SubSeq(buffer.data, buffer.head + 1, buffer.capacity)
                \o SubSeq(buffer.data, 1, buffer.head)
         ELSE SubSeq(buffer.data, 1, buffer.size)

---------------------------------------------------------------------------
(* Session record: persistent_session_t *)

\* the uint16_t of terminal_cols / terminal_rows
U16(n) == n % 65536

\* the record persistent_session_create_new builds, before it is linked in;
\* ref is the address malloc returned, id the generated id
NewSession(ref, id, name, command, working_dir, t) ==
    [ref |-> ref,
     id |-> id,
     name |-> IF name = NULL_STR THEN STR_UNNAMED ELSE name,
     command |-> IF command = NULL_STR THEN STR_BASH ELSE command,
     working_directory |-> IF working_dir = NULL_STR THEN STR_HOME ELSE working_dir,
     created_at |-> t,
     last_accessed |-> t,
     last_saved |-> 0,
     terminal_cols |-> 80,
     terminal_rows |-> 24,
     buffer |-> terminal_buffer_create(MAX_BUFFER_SIZE),
     is_active |-> FALSE,
     needs_save |-> TRUE,
     process_pid |-> 0,
     current_pss |-> NULL,
     current_wsi |-> NULL,
     total_bytes_written |-> 0,
     save_count |-> 0]

\* a faulty detach that forgets to clear is_active (variant for C5)
persistent_session_detach_connection_KeepsActive(session, t) ==
    [session EXCEPT
        !.current_pss = NULL,
        !.current_wsi = NULL,
        !.last_accessed = t,
        !.needs_save = TRUE]

\* a faulty detach that returns early when no connection is attached
\* (variant for C37)
persistent_session_detach_connection_OnlyWhenAttached(session, t) ==
    IF session.current_pss = NULL /\ session.current_wsi = NULL THEN session
    ELSE [session EXCEPT
             !.current_pss = NULL,
             !.current_wsi = NULL,
             !.is_active = FALSE,
             !.last_accessed = t,
             !.needs_save = TRUE]

\* persistent_session_detach_connection
persistent_session_detach_connection(session, t) ==
    [session EXCEPT
        !.current_pss = NULL,
        !.current_wsi = NULL,
        !.is_active = FALSE,
        !.last_accessed = t,
        !.needs_save = TRUE]

\* persistent_session_attach_connection(session, pss, wsi): false when one of
\* the pointers is NULL; an existing connection is detached first
persistent_session_attach_connection(session, pss, wsi, t) ==
    IF pss = NULL \/ wsi = NULL THEN [ok |-> FALSE, session |-> session]
    ELSE LET s0 == IF session.current_pss # NULL \/ session.current_wsi # NULL
                   THEN persistent_session_detach_connection(session, t)
                   ELSE session
         IN  [ok |-> TRUE,
              session |-> [s0 EXCEPT
                              !.current_pss = pss,
                              !.current_wsi = wsi,
                              !.is_active = TRUE,
                              !.last_accessed = t,
                              !.needs_save = TRUE]]

\* persistent_session_mark_dirty
persistent_session_mark_dirty(session) ==
    [session EXCEPT !.needs_save = TRUE]

\* a faulty ingest that counts the bytes the buffer holds instead of the
\* bytes written (variant for C36)
persistent_session_handle_pty_output_CountsBuffered(session, data, t) ==
    IF Len(data) = 0 THEN session
    ELSE LET buffer == terminal_buffer_append(session.buffer, data)
         IN  persistent_session_mark_dirty(
                [session EXCEPT
                    !.last_accessed = t,
                    !.total_bytes_written = buffer.size,
                    !.buffer = buffer])

\* persistent_session_handle_pty_output(session, data, length)
persistent_session_handle_pty_output(session, data, t) ==
    IF Len(data) = 0 THEN session
    ELSE persistent_session_mark_dirty(
            [session EXCEPT
                !.last_accessed = t,
                !.total_bytes_written = @ + Len(data),
                !.buffer = terminal_buffer_append(@, data)])

---------------------------------------------------------------------------
(* Session identifiers *)

DIGITS == {"0","1","2","3","4","5","6","7","8","9"}
LOWER == {"a","b","c","d","e","f","g","h","i","j","k","l","m",
          "n","o","p","q","r","s","t","u","v","w","x","y","z"}
UPPER == {"A","B","C","D","E","F","G","H","I","J","K","L","M",
          "N","O","P","Q","R","S","T","U","V","W","X","Y","Z"}
HEX == DIGITS \cup {"a","b","c","d","e","f"} \cup {"A","B","C","D","E","F"}

\* the UUID loop of validate_id: true when it reaches the last character
\* without a break (0-based positions 8, 13, 18, 23 hold '-', the rest hex)
IsUuidShaped(id) ==
    /\ Len(id) = SESSION_ID_LENGTH
    /\ \A i \in 0..(SESSION_ID_LENGTH - 1) :
          IF i \in {8, 13, 18, 23} THEN id[i + 1] = "-" ELSE id[i + 1] \in HEX

\* the legacy loop of validate_id
IsLegacyShaped(id) ==
    \A i \in 1..Len(id) : id[i] \in DIGITS \cup LOWER \cup UPPER \cup {"_", "-"}

\* a faulty validate_id without the legacy loop (variant for C26)
persistent_session_validate_id_UuidOnly(id) ==
    IF id = NULL_STR THEN FALSE
    ELSE IF Len(id) = 0 \/ Len(id) > 64 THEN FALSE
    ELSE IsUuidShaped(id)

\* persistent_session_validate_id
persistent_session_validate_id(id) ==
    IF id = NULL_STR THEN FALSE
    ELSE IF Len(id) = 0 \/ Len(id) > 64 THEN FALSE
    ELSE IF IsUuidShaped(id) THEN TRUE
    ELSE IsLegacyShaped(id)

---------------------------------------------------------------------------
(* Persistence codec: one file per session.  A file is its header lines    *)
(* (KEY=VALUE, in file order), whether the ---BUFFER_DATA--- line is       *)
(* there, and the raw bytes after it.  The disk maps <<directory, name>>   *)
(* to the file of that name; dirs is the set of directories that exist.    *)

\* persistent_session_get_state_file_path: "%s/%s.state"
persistent_session_get_state_file_path(session_id, state_dir) ==
    <<state_dir, session_id \o DOT_STATE>>

\* the bytes save_to_disk writes after the sentinel line
SavedBufferBytes(buffer) ==
    IF buffer.is_full /\ buffer.head > 0
    THEN SubSeq(buffer.data, buffer.head + 1, buffer.capacity)
            \o SubSeq(buffer.data, 1, buffer.head)
    ELSE SubSeq(buffer.data, 1, buffer.size)

\* the file persistent_session_save_to_disk writes for a session
StateFileOf(session) ==
    LET header ==
            << <<"SESSION_VERSION", 1>>,
               <<"ID", session.id>>,
               <<"NAME", session.name>>,
               <<"COMMAND", session.command>>,
               <<"WORKING_DIR", session.working_directory>>,
               <<"CREATED_AT", session.created_at>>,
               <<"LAST_ACCESSED", session.last_accessed>>,
               <<"TERMINAL_COLS", session.terminal_cols>>,
               <<"TERMINAL_ROWS", session.terminal_rows>>,
               <<"PROCESS_PID", session.process_pid>>,
               <<"TOTAL_BYTES", session.total_bytes_written>>,
               <<"SAVE_COUNT", session.save_count + 1>> >>
        has_data == session.buffer.size > 0
        buffer_lines ==
            IF has_data
            THEN << <<"BUFFER_SIZE", session.buffer.size>>,
                    <<"BUFFER_HEAD", session.buffer.head>>,
                    <<"BUFFER_FULL", session.buffer.is_full>> >>
            ELSE <<>>
    IN  [lines |-> header \o buffer_lines,
         sentinel |-> has_data,
         data |-> IF has_data THEN SavedBufferBytes(session.buffer) ELSE <<>>]

\* fopen(path, "w") succeeds when the directory exists and can be written
CanWrite(path, ds, writable) == writable /\ path[1] \in ds

\* a faulty save_to_disk that clears needs_save although fopen failed
\* (variant for C24)
persistent_session_save_to_disk_ClearsDirtyOnFailure(session, dk, ds, writable, t) ==
    LET state_file == persistent_session_get_state_file_path(session.id, SESSION_STATE_DIR)
    IN  IF ~CanWrite(state_file, ds, writable)
        THEN [ok |-> FALSE, session |-> [session EXCEPT !.needs_save = FALSE], disk |-> dk]
        ELSE [ok |-> TRUE,
              session |-> [session EXCEPT
                              !.last_saved = t,
                              !.needs_save = FALSE,
                              !.save_count = @ + 1],
              disk |-> (state_file :> StateFileOf(session)) @@ dk]

\* persistent_session_save_to_disk: the path is built from SESSION_STATE_DIR
persistent_session_save_to_disk(session, dk, ds, writable, t) ==
    LET state_file == persistent_session_get_state_file_path(session.id, SESSION_STATE_DIR)
    IN  IF ~CanWrite(state_file, ds, writable)
        THEN [ok |-> FALSE, session |-> session, disk |-> dk]
        ELSE [ok |-> TRUE,
              session |-> [session EXCEPT
                              !.last_saved = t,
                              !.needs_save = FALSE,
                              !.save_count = @ + 1],
              disk |-> (state_file :> StateFileOf(session)) @@ dk]

\* g_last_error after persistent_session_save_to_disk was called on each of
\* these records: a failed fopen calls session_set_last_error(SESSION_ERROR_IO)
LastErrorAfterSaves(attempted, ds, writable, err) ==
    IF \E session \in attempted :
           ~persistent_session_save_to_disk(session, <<>>, ds, writable, 0).ok
    THEN SESSION_ERROR_IO
    ELSE err

\* the value the header loop leaves for a key: each matching line assigns,
\* so the last one wins; a key that never appears keeps the default
HeaderValue(lines, key, default) ==
    LET at == {i \in 1..Len(lines) : lines[i][1] = key}
    IN  IF at = {} THEN default
        ELSE lines[CHOOSE i \in at : \A j \in at : j <= i][2]

\* the buffer persistent_session_load_from_disk builds from the file
LoadedBuffer(file) ==
    LET buffer_size == HeaderValue(file.lines, "BUFFER_SIZE", 0)
        buffer_head == HeaderValue(file.lines, "BUFFER_HEAD", 0)
        buffer_full == HeaderValue(file.lines, "BUFFER_FULL", FALSE)
        empty == terminal_buffer_create(MAX_BUFFER_SIZE)
        bytes_read == Min(buffer_size, Len(file.data))
    IN  IF buffer_size > 0 /\ file.sentinel /\ bytes_read = buffer_size
        THEN [empty EXCEPT
                !.data = Memcpy(empty.data, 0, file.data, 0, buffer_size),
                !.size = buffer_size,
                !.head = buffer_head,
                !.is_full = buffer_full]
        ELSE empty

\* the record persistent_session_load_from_disk builds from an open file
LoadedSession(ref, session_id, file, t) ==
    [ref |-> ref,
     id |-> session_id,
     name |-> HeaderValue(file.lines, "NAME", STR_RESTORED),
     command |-> HeaderValue(file.lines, "COMMAND", STR_BASH),
     working_directory |-> HeaderValue(file.lines, "WORKING_DIR", STR_HOME),
     created_at |-> HeaderValue(file.lines, "CREATED_AT", 0),
     last_accessed |-> HeaderValue(file.lines, "LAST_ACCESSED", 0),
     last_saved |-> t,
     terminal_cols |-> U16(HeaderValue(file.lines, "TERMINAL_COLS", 0)),
     terminal_rows |-> U16(HeaderValue(file.lines, "TERMINAL_ROWS", 0)),
     buffer |-> LoadedBuffer(file),
     is_active |-> FALSE,
     needs_save |-> FALSE,
     process_pid |-> HeaderValue(file.lines, "PROCESS_PID", 0),
     current_pss |-> NULL,
     current_wsi |-> NULL,
     total_bytes_written |-> HeaderValue(file.lines, "TOTAL_BYTES", 0),
     save_count |-> HeaderValue(file.lines, "SAVE_COUNT", 0)]

\* the record of "no session": a NULL persistent_session_t*
NoSession == [ref |-> NULL]

\* the outcome of a load that took the process down
Crashed == [ref |-> NULL, crashed |-> TRUE]

\* whether the load of this file copies more bytes into the buffer than its
\* data array holds: memcpy(session->buffer->data, buffer_data, buffer_size)
\* with buffer_size > capacity writes past the end of the allocation
LoadOverflows(file) ==
    LET buffer_size == HeaderValue(file.lines, "BUFFER_SIZE", 0)
    IN  /\ file.sentinel
        /\ buffer_size > MAX_BUFFER_SIZE
        /\ Len(file.data) >= buffer_size

\* persistent_session_load_from_disk(session_id, state_dir): NULL for an
\* invalid id or a file that cannot be opened
persistent_session_load_from_disk(session_id, state_dir, dk, ref, t) ==
    LET state_file == persistent_session_get_state_file_path(session_id, state_dir)
    IN  IF ~persistent_session_validate_id(session_id) THEN NoSession
        ELSE IF state_file \notin DOMAIN dk THEN NoSession
        ELSE LoadedSession(ref, session_id, dk[state_file], t)

\* a disk with no file
EmptyDisk == [p \in {} |-> [lines |-> <<>>, sentinel |-> FALSE, data |-> <<>>]]

---------------------------------------------------------------------------
(* Registry: session_registry_t.  sessions is the linked list, head first. *)
(* The statistics counters (total_sessions_created, ...) are only logged   *)
(* and are left out.                                                       *)

\* no registry: before session_registry_create and after session_registry_destroy
NoRegistry == [alive |-> FALSE, sessions |-> <<>>]

\* session_registry_create(state_dir): mkdir of the directory, default parameters
session_registry_create(state_dir, t) ==
    [alive |-> TRUE,
     sessions |-> <<>>,
     active_count |-> 0,
     total_count |-> 0,
     state_directory |-> state_dir,
     last_cleanup |-> t,
     max_inactive_age |-> DEFAULT_MAX_INACTIVE_AGE,
     max_sessions |-> DEFAULT_MAX_SESSIONS]

\* the addresses of the records linked in the registry
LiveRefs(registry) == {registry.sessions[i].ref : i \in 1..Len(registry.sessions)}

\* persistent_session_create_new: the new record goes to the head of the list
persistent_session_create_new(registry, ref, id, name, command, working_dir, t) ==
    [registry EXCEPT
        !.sessions = <<NewSession(ref, id, name, command, working_dir, t)>> \o @,
        !.total_count = @ + 1]

\* position in the list of the first record whose id is id, 0 when there is none
FirstWithId(sessions, id) ==
    LET at == {i \in 1..Len(sessions) : sessions[i].id = id}
    IN  IF at = {} THEN 0 ELSE CHOOSE i \in at : \A j \in at : i <= j

\* a faulty lookup that only knows ids of the generated (UUID) shape (variant for C11)
persistent_session_find_by_id_UuidOnly(registry, id) ==
    IF ~registry.alive \/ ~IsUuidShaped(id) THEN 0
    ELSE FirstWithId(registry.sessions, id)

\* persistent_session_find_by_id: position of the record, 0 for NULL
persistent_session_find_by_id(registry, id) ==
    IF ~registry.alive \/ ~persistent_session_validate_id(id) THEN 0
    ELSE FirstWithId(registry.sessions, id)

\* the list without its i-th record
RemoveAt(sessions, i) ==
    SubSeq(sessions, 1, i - 1) \o SubSeq(sessions, i + 1, Len(sessions))

\* unlink(path)
Unlink(dk, path) == [q \in DOMAIN dk \ {path} |-> dk[q]]

\* a faulty needs_saving without the periodic save (variant for C33)
persistent_session_needs_saving_DirtyOnly(session, t) ==
    session.needs_save

\* persistent_session_needs_saving
persistent_session_needs_saving(session, t) ==
    session.needs_save \/ (t - session.last_saved) > PERSISTENCE_SAVE_INTERVAL

\* a faulty replay that never sends the final, shorter chunk (variant for C12)
persistent_session_send_buffer_to_client_DropsRemainder(session) ==
    IF session.current_wsi = NULL THEN <<>>
    ELSE LET contents == terminal_buffer_get_contents(session.buffer)
             n == Len(contents) \div REPLAY_CHUNK_SIZE
         IN  [k \in 1..n |->
                 [type |-> OUTPUT,
                  payload |-> SubSeq(contents, (k - 1) * REPLAY_CHUNK_SIZE + 1,
                                     k * REPLAY_CHUNK_SIZE)]]

\* persistent_session_send_buffer_to_client: the frames handed to lws_write
\* for the attached connection, in send order, when every write succeeds;
\* a frame is its OUTPUT tag byte followed by the payload
persistent_session_send_buffer_to_client(session) ==
    IF session.current_wsi = NULL THEN <<>>
    ELSE LET contents == terminal_buffer_get_contents(session.buffer)
             length == Len(contents)
             n == (length + REPLAY_CHUNK_SIZE - 1) \div REPLAY_CHUNK_SIZE
         IN  [k \in 1..n |->
                 [type |-> OUTPUT,
                  payload |-> SubSeq(contents, (k - 1) * REPLAY_CHUNK_SIZE + 1,
                                     Min(k * REPLAY_CHUNK_SIZE, length))]]

\* a faulty connection handler that replays the buffer before it attaches the
\* connection, so the replay has no connection to write to (variant for C13)
persistent_session_handle_websocket_connection_ReplayFirst(registry, session_id, pss, wsi, working_dir, ref, gen_id, t) ==
    IF ~registry.alive \/ pss = NULL \/ wsi = NULL \/ session_id = NULL_STR
        \/ ~persistent_session_validate_id(session_id)
        THEN [registry |-> registry, session |-> NULL, frames |-> <<>>]
    ELSE LET i == persistent_session_find_by_id(registry, session_id)
         IN  IF i # 0
             THEN LET a == persistent_session_attach_connection(
                               registry.sessions[i], pss, wsi, t)
                  IN  [registry |-> [registry EXCEPT !.sessions[i] = a.session],
                       session |-> a.session.ref,
                       frames |-> persistent_session_send_buffer_to_client(
                                      persistent_session_detach_connection(
                                          registry.sessions[i], t))]
             ELSE LET r1 == persistent_session_create_new(
                                registry, ref, gen_id, session_id, STR_BASH, working_dir, t)
                      s1 == [r1.sessions[1] EXCEPT !.id = session_id]
                      a == persistent_session_attach_connection(s1, pss, wsi, t)
                  IN  [registry |-> [r1 EXCEPT !.sessions[1] = a.session],
                       session |-> a.session.ref,
                       frames |-> <<>>]

\* a faulty connection handler that leaves a new record under the generated
\* id instead of the id the client named (variant for C28)
persistent_session_handle_websocket_connection_KeepsGeneratedId(registry, session_id, pss, wsi, working_dir, ref, gen_id, t) ==
    IF ~registry.alive \/ pss = NULL \/ wsi = NULL \/ session_id = NULL_STR
        THEN [registry |-> registry, session |-> NULL, frames |-> <<>>]
    ELSE IF ~persistent_session_validate_id(session_id)
        THEN [registry |-> registry, session |-> NULL, frames |-> <<>>]
    ELSE LET i == persistent_session_find_by_id(registry, session_id)
         IN  IF i # 0
             THEN LET a == persistent_session_attach_connection(
                               registry.sessions[i], pss, wsi, t)
                  IN  [registry |-> [registry EXCEPT !.sessions[i] = a.session],
                       session |-> a.session.ref,
                       frames |-> persistent_session_send_buffer_to_client(a.session)]
             ELSE LET r1 == persistent_session_create_new(
                                registry, ref, gen_id, session_id, STR_BASH, working_dir, t)
                      a == persistent_session_attach_connection(r1.sessions[1], pss, wsi, t)
                  IN  [registry |-> [r1 EXCEPT !.sessions[1] = a.session],
                       session |-> a.session.ref,
                       frames |-> <<>>]

\* persistent_session_handle_websocket_connection: attach to the record with
\* this id or create it.  session is the address of the record returned
\* (NULL on failure), frames the replay frames written to the connection.
persistent_session_handle_websocket_connection(registry, session_id, pss, wsi, working_dir, ref, gen_id, t) ==
    IF ~registry.alive \/ pss = NULL \/ wsi = NULL \/ session_id = NULL_STR
        THEN [registry |-> registry, session |-> NULL, frames |-> <<>>]
    ELSE IF ~persistent_session_validate_id(session_id)
        THEN [registry |-> registry, session |-> NULL, frames |-> <<>>]
    ELSE LET i == persistent_session_find_by_id(registry, session_id)
         IN  IF i # 0
             THEN LET a == persistent_session_attach_connection(
                               registry.sessions[i], pss, wsi, t)
                  IN  [registry |-> [registry EXCEPT !.sessions[i] = a.session],
                       session |-> a.session.ref,
                       frames |-> persistent_session_send_buffer_to_client(a.session)]
             ELSE LET r1 == persistent_session_create_new(
                                registry, ref, gen_id, session_id, STR_BASH, working_dir, t)
                      s1 == [r1.sessions[1] EXCEPT !.id = session_id]
                      a == persistent_session_attach_connection(s1, pss, wsi, t)
                  IN  [registry |-> [r1 EXCEPT !.sessions[1] = a.session],
                       session |-> a.session.ref,
                       frames |-> <<>>]

\* a faulty disconnection handler that detaches without saving (variant for C7)
persistent_session_handle_websocket_disconnection_NoSave(registry, i, dk, ds, writable, t) ==
    LET d == persistent_session_detach_connection(registry.sessions[i], t)
    IN  [registry |-> [registry EXCEPT !.sessions[i] = d],
         disk |-> dk,
         saved |-> FALSE]

\* persistent_session_handle_websocket_disconnection on the i-th record:
\* detach, then save whatever the outcome of the save
persistent_session_handle_websocket_disconnection(registry, i, dk, ds, writable, t) ==
    LET d == persistent_session_detach_connection(registry.sessions[i], t)
        r == persistent_session_save_to_disk(d, dk, ds, writable, t)
    IN  [registry |-> [registry EXCEPT !.sessions[i] = r.session],
         disk |-> r.disk,
         saved |-> r.ok]

\* a faulty destroy that forgets registry->total_count-- (variant for C9)
persistent_session_destroy_NoDecrement(registry, id, dk) ==
    LET i == IF id = NULL_STR THEN 0 ELSE FirstWithId(registry.sessions, id)
    IN  IF ~registry.alive \/ i = 0
        THEN [ok |-> FALSE, registry |-> registry, disk |-> dk, closed |-> NULL]
        ELSE LET current == registry.sessions[i]
             IN  [ok |-> TRUE,
                  registry |-> [registry EXCEPT !.sessions = RemoveAt(@, i)],
                  disk |-> Unlink(dk, persistent_session_get_state_file_path(
                                          id, registry.state_directory)),
                  closed |-> IF current.current_wsi # NULL /\ current.current_pss # NULL
                             THEN current.current_wsi ELSE NULL]

\* persistent_session_destroy(registry, id): the first record with this id is
\* unlinked and freed, its state file removed from the registry's directory;
\* closed is the connection handed to lws_close_reason (NULL for none)
persistent_session_destroy(registry, id, dk) ==
    LET i == IF id = NULL_STR THEN 0 ELSE FirstWithId(registry.sessions, id)
    IN  IF ~registry.alive \/ i = 0
        THEN [ok |-> FALSE, registry |-> registry, disk |-> dk, closed |-> NULL]
        ELSE LET current == registry.sessions[i]
             IN  [ok |-> TRUE,
                  registry |-> [registry EXCEPT
                                   !.sessions = RemoveAt(@, i),
                                   !.total_count = @ - 1],
                  disk |-> Unlink(dk, persistent_session_get_state_file_path(
                                          id, registry.state_directory)),
                  closed |-> IF current.current_wsi # NULL /\ current.current_pss # NULL
                             THEN current.current_wsi ELSE NULL]

\* persistent_session_handle_session_close
persistent_session_handle_session_close(registry, session_id, dk) ==
    IF ~registry.alive \/ session_id = NULL_STR
        \/ persistent_session_find_by_id(registry, session_id) = 0
    THEN [ok |-> FALSE, registry |-> registry, disk |-> dk, closed |-> NULL]
    ELSE persistent_session_destroy(registry, session_id, dk)

\* `age > registry->max_inactive_age`: time_t against size_t, so a negative
\* age is compared as a huge unsigned value
AgeExceeds(age, max_age) == IF age < 0 THEN TRUE ELSE age > max_age

\* a faulty removal test whose cap branch ignores is_active (variant for C8)
ShouldRemove_CapIgnoresActive(current, total_count, max_inactive_age, max_sessions, t) ==
    \/ ~current.is_active /\ AgeExceeds(t - current.last_accessed, max_inactive_age)
    \/ total_count > max_sessions

\* a faulty removal test whose cap branch still fires at the cap (variant
\* for C35)
ShouldRemove_AtCap(current, total_count, max_inactive_age, max_sessions, t) ==
    \/ ~current.is_active /\ AgeExceeds(t - current.last_accessed, max_inactive_age)
    \/ total_count >= max_sessions /\ ~current.is_active

\* whether the loop of session_registry_cleanup_old removes the record it is at
ShouldRemove(current, total_count, max_inactive_age, max_sessions, t) ==
    \/ ~current.is_active /\ AgeExceeds(t - current.last_accessed, max_inactive_age)
    \/ total_count > max_sessions /\ ~current.is_active

\* the loop of session_registry_cleanup_old from the record at the head of
\* ss on; total_count is registry->total_count at that point
RECURSIVE CleanupLoop(_, _, _, _, _, _, _)
CleanupLoop(ss, total_count, registry, dk, ds, writable, t) ==
    IF ss = <<>> THEN [sessions |-> <<>>, total_count |-> total_count, disk |-> dk]
    ELSE LET current == Head(ss)
         IN  IF ShouldRemove(current, total_count, registry.max_inactive_age,
                             registry.max_sessions, t)
             THEN LET dk1 == IF current.needs_save
                             THEN persistent_session_save_to_disk(
                                      current, dk, ds, writable, t).disk
                             ELSE dk
                      dk2 == Unlink(dk1, persistent_session_get_state_file_path(
                                             current.id, registry.state_directory))
                  IN  CleanupLoop(Tail(ss), total_count - 1, registry, dk2, ds, writable, t)
             ELSE LET rest == CleanupLoop(Tail(ss), total_count, registry, dk, ds, writable, t)
                  IN  [rest EXCEPT !.sessions = <<current>> \o @]

\* session_registry_cleanup_old
session_registry_cleanup_old(registry, dk, ds, writable, t) ==
    LET r == CleanupLoop(registry.sessions, registry.total_count, registry,
                         dk, ds, writable, t)
    IN  [registry |-> [registry EXCEPT
                          !.sessions = r.sessions,
                          !.total_count = r.total_count],
         disk |-> r.disk]

\* the first loop of session_registry_maintenance: save what needs saving
RECURSIVE SaveLoop(_, _, _, _, _)
SaveLoop(ss, dk, ds, writable, t) ==
    IF ss = <<>> THEN [sessions |-> <<>>, disk |-> dk]
    ELSE LET current == Head(ss)
             r == IF persistent_session_needs_saving(current, t)
                  THEN persistent_session_save_to_disk(current, dk, ds, writable, t)
                  ELSE [ok |-> FALSE, session |-> current, disk |-> dk]
             rest == SaveLoop(Tail(ss), r.disk, ds, writable, t)
         IN  [sessions |-> <<r.session>> \o rest.sessions, disk |-> rest.disk]

\* the number of records of the list with is_active set
CountActive(sessions) ==
    Cardinality({i \in 1..Len(sessions) : sessions[i].is_active})

\* a faulty maintenance that runs the sweep on every tick (variant for C34)
session_registry_maintenance_SweepsAlways(registry, dk, ds, writable, t) ==
    LET saved == SaveLoop(registry.sessions, dk, ds, writable, t)
        r1 == [registry EXCEPT
                  !.sessions = saved.sessions,
                  !.active_count = CountActive(registry.sessions)]
        c == session_registry_cleanup_old(r1, saved.disk, ds, writable, t)
    IN  [registry |-> [c.registry EXCEPT !.last_cleanup = t], disk |-> c.disk]

\* session_registry_maintenance
session_registry_maintenance(registry, dk, ds, writable, t) ==
    LET saved == SaveLoop(registry.sessions, dk, ds, writable, t)
        r1 == [registry EXCEPT
                  !.sessions = saved.sessions,
                  !.active_count = CountActive(registry.sessions)]
    IN  IF (t - r1.last_cleanup) > CLEANUP_INTERVAL
        THEN LET c == session_registry_cleanup_old(r1, saved.disk, ds, writable, t)
             IN  [registry |-> [c.registry EXCEPT !.last_cleanup = t], disk |-> c.disk]
        ELSE [registry |-> r1, disk |-> saved.disk]

\* session_registry_destroy: every record that needs_save is saved, then all
\* records and the registry are freed; what is left is the disk
RECURSIVE session_registry_destroy(_, _, _, _, _)
session_registry_destroy(ss, dk, ds, writable, t) ==
    IF ss = <<>> THEN dk
    ELSE LET current == Head(ss)
             dk1 == IF current.needs_save
                    THEN persistent_session_save_to_disk(current, dk, ds, writable, t).disk
                    ELSE dk
         IN  session_registry_destroy(Tail(ss), dk1, ds, writable, t)

\* the names readdir returns for a directory
DirEntries(dk, dir) == {p[2] : p \in {q \in DOMAIN dk : q[1] = dir}}

\* strrchr(d_name, '.'): 0-based offset of the last '.', -1 when there is none
LastDot(d_name) ==
    LET at == {i \in 1..Len(d_name) : d_name[i] = "."}
    IN  IF at = {} THEN -1 ELSE (CHOOSE i \in at : \A j \in at : j <= i) - 1

\* the session id session_registry_load_from_disk takes from a directory
\* entry, NULL_STR when the entry is skipped
StateFileId(d_name) ==
    LET ext == LastDot(d_name)
    IN  IF ext < 0 \/ SubSeq(d_name, ext + 1, Len(d_name)) # DOT_STATE THEN NULL_STR
        ELSE IF ext # SESSION_ID_LENGTH THEN NULL_STR
        ELSE SubSeq(d_name, 1, SESSION_ID_LENGTH)

\* the loop of session_registry_load_from_disk over the entries in readdir
\* order; each record loaded goes to the head of the list
RECURSIVE LoadLoop(_, _, _, _)
LoadLoop(registry, entries, dk, t) ==
    IF entries = <<>> THEN registry
    ELSE LET session_id == StateFileId(Head(entries))
             session == IF session_id = NULL_STR THEN NoSession
                        ELSE persistent_session_load_from_disk(
                                 session_id, registry.state_directory, dk,
                                 Len(registry.sessions) + 1, t)
             r1 == IF session = NoSession THEN registry
                   ELSE [registry EXCEPT
                            !.sessions = <<session>> \o @,
                            !.total_count = @ + 1]
         IN  LoadLoop(r1, Tail(entries), dk, t)

\* session_registry_load_from_disk; false when the directory cannot be opened
session_registry_load_from_disk(registry, entries, dk, ds, t) ==
    IF ~registry.alive \/ registry.state_directory \notin ds THEN registry
    ELSE LoadLoop(registry, entries, dk, t)

\* the payload bytes of a sequence of frames, in send order
RECURSIVE Flatten(_)
Flatten(frames) ==
    IF frames = <<>> THEN <<>> ELSE Head(frames).payload \o Flatten(Tail(frames))

\* the orders readdir may return a set of names in
Orders(S) == {o \in [1..Cardinality(S) -> S] : \A i, j \in DOMAIN o : i # j => o[i] # o[j]}

---------------------------------------------------------------------------
(* State *)

VARIABLES
    now,            \* time(NULL)
    disk,           \* the files on disk: <<directory, file name>> -> file
    dirs,           \* the directories that exist
    disk_writable,  \* whether fopen(path, "w") can succeed
    tb,             \* SpecBuf: one terminal_buffer_t
    tb_input,       \* SpecBuf: every byte handed to terminal_buffer_append, in order
    rec,            \* SpecCodec: the session record R
    saved_rec,      \* SpecCodec: R as it was when it was last saved
    restored,       \* SpecCodec: the record loaded back from R's file
    config_dir,     \* Spec: the state directory the server is configured with
    registry,       \* Spec: the session registry (server->persistent_registry)
    conns,          \* Spec: the client connections (struct pss_tty per connection)
    at_shutdown,    \* Spec: between server exit and the next start, the buffer
                    \* snapshot each session had at exit (history, not program state)
    frames,         \* SpecReplay: per connection, the frames the last replay wrote to it
    delivered,      \* SpecReplay: per connection, the output bytes its client has received
    saving,         \* SpecCrash: the position of the save_to_disk call in progress
    g_last_error,   \* the error session_set_last_error recorded last
    id_arg,         \* SpecValidate: the session id a client names
    id_valid,       \* SpecValidate: what persistent_session_validate_id returned for it
    ws_returned,    \* what the last persistent_session_handle_websocket_connection returned
    detach_returned \* what the last persistent_session_detach_connection returned

vars == <<now, disk, dirs, disk_writable, tb, tb_input, rec, saved_rec, restored,
          config_dir, registry, conns, at_shutdown, frames, delivered, saving,
          g_last_error, id_arg, id_valid, ws_returned, detach_returned>>

\* the variables of each part of the model
envVars == <<now, disk, dirs, disk_writable>>
bufVars == <<tb, tb_input>>
codecVars == <<rec, saved_rec, restored>>
regVars == <<config_dir, registry, conns, at_shutdown>>
replayVars == <<frames, delivered>>
saveVars == <<saving>>
errVars == <<g_last_error>>
validateVars == <<id_arg, id_valid, ws_returned, detach_returned>>

\* no save_to_disk call is in progress
NotSaving == [open |-> FALSE, written |-> 0]

\* a map with no entry
NoSnapshots == [id \in {} |-> <<>>]

Conns == 1..NumConns

\* a connection slot no client is connected on
NoConn == [connected |-> FALSE, persistent_session |-> NULL, close_reason |-> FALSE]

\* values of the variables a specification does not use
EnvIdle ==
    /\ now = StartTime
    /\ disk = EmptyDisk
    /\ dirs = {SESSION_STATE_DIR}
    /\ disk_writable = TRUE
BufIdle ==
    /\ tb = terminal_buffer_create(MAX_BUFFER_SIZE)
    /\ tb_input = <<>>
CodecIdle ==
    /\ rec = NoSession
    /\ saved_rec = NoSession
    /\ restored = NoSession
RegIdle ==
    /\ config_dir = SESSION_STATE_DIR
    /\ registry = NoRegistry
    /\ conns = [c \in Conns |-> NoConn]
    /\ at_shutdown = NoSnapshots
ReplayIdle ==
    /\ frames = [c \in Conns |-> <<>>]
    /\ delivered = [c \in Conns |-> <<>>]
SaveIdle ==
    /\ saving = NotSaving
ErrIdle ==
    /\ g_last_error = SESSION_ERROR_NONE
\* a return value is <<>> before the call and <<value>> after it
ValidateIdle ==
    /\ id_arg = <<>>
    /\ id_valid = <<>>
    /\ ws_returned = <<>>
    /\ detach_returned = <<>>

---------------------------------------------------------------------------
(* SpecBuf: a buffer of capacity MAX_BUFFER_SIZE that starts empty and is  *)
(* appended to in chunks of 1 .. capacity + 1 bytes.                       *)

Chunks == SeqsOfLen(Bytes, 1, MAX_BUFFER_SIZE + 1)

BufInit ==
    /\ BufIdle
    /\ EnvIdle
    /\ CodecIdle
    /\ RegIdle
    /\ ReplayIdle
    /\ SaveIdle
    /\ ErrIdle
    /\ ValidateIdle

BufAppend(chunk) ==
    /\ Len(tb_input) + Len(chunk) <= MaxInput
    /\ tb' = terminal_buffer_append(tb, chunk)
    /\ tb_input' = tb_input \o chunk
    /\ UNCHANGED <<envVars, codecVars, regVars, replayVars, saveVars, errVars, validateVars>>

BufNext == \E chunk \in Chunks : BufAppend(chunk)

SpecBuf == BufInit /\ [][BufNext]_vars

---------------------------------------------------------------------------
(* SpecCodec: one session record R that ingests PTY output, is saved to    *)
(* its state file and is loaded back from it.                              *)

\* the records R starts from: a created session whose dimensions and pid
\* were then set by the server
CodecRecords ==
    {[NewSession(1, v[1], v[2], STR_BASH, STR_TMP, StartTime) EXCEPT
            !.process_pid = v[3], !.terminal_cols = v[4], !.terminal_rows = v[5]] :
        v \in {<<ID_UUID_1, STR_BUILD, 0, 80, 24>>,
                <<ID_LEGACY, NULL_STR, 4242, 132, 50>>}}

CodecInit ==
    /\ rec \in CodecRecords
    /\ saved_rec = NoSession
    /\ restored = NoSession
    /\ EnvIdle
    /\ BufIdle
    /\ RegIdle
    /\ ReplayIdle
    /\ SaveIdle
    /\ ErrIdle
    /\ ValidateIdle

CodecIngest(chunk) ==
    /\ rec.total_bytes_written + Len(chunk) <= MaxCodecBytes
    /\ rec' = persistent_session_handle_pty_output(rec, chunk, now)
    /\ UNCHANGED <<saved_rec, restored, envVars, bufVars, regVars, replayVars, saveVars, errVars, validateVars>>

CodecSave ==
    /\ rec.save_count < MaxSaves
    /\ LET r == persistent_session_save_to_disk(rec, disk, dirs, disk_writable, now)
       IN  /\ r.ok
           /\ rec' = r.session
           /\ disk' = r.disk
           /\ saved_rec' = rec
    /\ restored' = NoSession
    /\ UNCHANGED <<now, dirs, disk_writable, bufVars, regVars, replayVars, saveVars, errVars, validateVars>>

CodecLoad ==
    /\ saved_rec # NoSession
    /\ restored' = persistent_session_load_from_disk(rec.id, SESSION_STATE_DIR, disk, 2, now)
    /\ UNCHANGED <<rec, saved_rec, envVars, bufVars, regVars, replayVars, saveVars, errVars, validateVars>>

CodecTick ==
    /\ now < StartTime + MaxTime
    /\ now' = now + 1
    /\ UNCHANGED <<disk, dirs, disk_writable, codecVars, bufVars, regVars, replayVars, saveVars, errVars, validateVars>>

CodecNext ==
    \/ \E chunk \in Chunks : CodecIngest(chunk)
    \/ CodecSave
    \/ CodecLoad
    \/ CodecTick

SpecCodec == CodecInit /\ [][CodecNext]_vars

---------------------------------------------------------------------------
(* Spec: the server.  One registry, NumConns client connections, the       *)
(* state directory on disk, the clock.  The callers of the session core    *)
(* (the WebSocket callbacks, the PTY read callback, the maintenance timer  *)
(* and server start and exit) are the actions; each stores what the core   *)
(* returns in the connection's pss_tty.                                    *)

\* ids a client may name, and the id the generator returns
ClientIds == {ID_UUID_1, ID_LEGACY}
GenIds == {ID_UUID_1}

\* PTY chunks of Spec
PtyChunks == {<<1>>}

\* the address malloc returns: the lowest one no live record has
FreshRef ==
    LET used == LiveRefs(registry)
    IN  CHOOSE n \in 1..(MaxRecords + 1) : n \notin used /\ \A m \in 1..(n - 1) : m \in used

\* the connections once the records of reg are the only live ones: a pss_tty
\* that points at a record no longer linked in reg now points at freed memory
AfterFree(cs, reg) ==
    [c \in Conns |->
        IF cs[c].persistent_session \notin LiveRefs(reg) \cup {NULL}
        THEN [cs[c] EXCEPT !.persistent_session = DANGLING]
        ELSE cs[c]]

\* position in the registry of the record at address ref, 0 when it was freed
RecordAt(ref) ==
    LET at == {i \in 1..Len(registry.sessions) : registry.sessions[i].ref = ref}
    IN  IF at = {} THEN 0 ELSE CHOOSE i \in at : TRUE

\* no record and no state file is past MaxSaves checkpoints (bounds save_count)
WithinSaveBound(reg, dk) ==
    /\ \A i \in 1..Len(reg.sessions) : reg.sessions[i].save_count <= MaxSaves
    /\ \A p \in DOMAIN dk : HeaderValue(dk[p].lines, "SAVE_COUNT", 0) <= MaxSaves

\* the environments of a run: the configured state directory and whether
\* the disk takes writes; the default directory exists from earlier runs
Environments ==
    {<<SESSION_STATE_DIR, TRUE>>, <<SESSION_STATE_DIR, FALSE>>}

Init ==
    /\ now = StartTime
    /\ disk = EmptyDisk
    /\ \E e \in Environments : config_dir = e[1] /\ disk_writable = e[2]
    /\ dirs = {SESSION_STATE_DIR, config_dir}
    /\ registry = session_registry_create(config_dir, StartTime)
    /\ conns = [c \in Conns |-> NoConn]
    /\ at_shutdown = NoSnapshots
    /\ BufIdle
    /\ CodecIdle
    /\ ReplayIdle
    /\ SaveIdle
    /\ ErrIdle
    /\ ValidateIdle

\* the clock advances
Tick ==
    /\ now < StartTime + MaxTime
    /\ now' = now + 1
    /\ UNCHANGED <<disk, dirs, disk_writable, regVars, bufVars, codecVars, replayVars, saveVars, errVars, validateVars>>

\* server start: session_registry_create, then session_registry_load_from_disk
Startup ==
    /\ ~registry.alive
    /\ dirs' = dirs \cup {config_dir}
    /\ \E entries \in Orders(DirEntries(disk, config_dir)) :
          registry' = session_registry_load_from_disk(
                          session_registry_create(config_dir, now), entries, disk, dirs', now)
    /\ at_shutdown' = NoSnapshots
    /\ g_last_error' = SESSION_ERROR_NONE
    /\ UNCHANGED <<now, disk, disk_writable, config_dir, conns, bufVars, codecVars, replayVars, saveVars, validateVars>>

\* server exit: session_registry_destroy; the process and its connections end
Shutdown ==
    /\ registry.alive
    /\ disk' = session_registry_destroy(registry.sessions, disk, dirs, disk_writable, now)
    /\ WithinSaveBound(NoRegistry, disk')
    /\ registry' = NoRegistry
    /\ conns' = [c \in Conns |-> NoConn]
    /\ at_shutdown' = [id \in {registry.sessions[i].id : i \in 1..Len(registry.sessions)} |->
                          terminal_buffer_get_contents(
                              registry.sessions[FirstWithId(registry.sessions, id)].buffer)]
    /\ g_last_error' = LastErrorAfterSaves(
                           {registry.sessions[i] : i \in {j \in 1..Len(registry.sessions) :
                                                             registry.sessions[j].needs_save}},
                           dirs, disk_writable, g_last_error)
    /\ UNCHANGED <<now, dirs, disk_writable, config_dir, bufVars, codecVars, replayVars, saveVars, validateVars>>

\* an explicit request for a new session
CreateNew(gen_id, name) ==
    /\ registry.alive
    /\ Len(registry.sessions) < MaxRecords
    /\ FirstWithId(registry.sessions, gen_id) = 0
    /\ \A p \in DOMAIN disk : p[2] # gen_id \o DOT_STATE
    /\ registry' = persistent_session_create_new(
                       registry, FreshRef, gen_id, name, NULL_STR, STR_TMP, now)
    /\ UNCHANGED <<envVars, config_dir, conns, at_shutdown, bufVars, codecVars, replayVars, saveVars, errVars, validateVars>>

\* a client connects and names a session id
WsConnect(c, session_id) ==
    /\ registry.alive
    /\ ~conns[c].connected
    /\ \/ persistent_session_find_by_id(registry, session_id) # 0
       \/ Len(registry.sessions) < MaxRecords
    /\ LET r == persistent_session_handle_websocket_connection(
                    registry, session_id, c, c, STR_TMP, FreshRef, ID_UUID_1, now)
       IN  /\ registry' = r.registry
           /\ conns' = [conns EXCEPT ![c] =
                            IF r.session = NULL THEN NoConn
                            ELSE [connected |-> TRUE,
                                  persistent_session |-> r.session,
                                  close_reason |-> FALSE]]
    /\ UNCHANGED <<envVars, config_dir, at_shutdown, bufVars, codecVars, replayVars, saveVars, errVars, validateVars>>

\* the connection closes and its pss_tty still points at a record of the registry
WsDisconnect(c) ==
    /\ conns[c].connected
    /\ conns[c].persistent_session # NULL
    /\ RecordAt(conns[c].persistent_session) # 0
    /\ LET r == persistent_session_handle_websocket_disconnection(
                    registry, RecordAt(conns[c].persistent_session),
                    disk, dirs, disk_writable, now)
       IN  /\ WithinSaveBound(r.registry, r.disk)
           /\ registry' = r.registry
           /\ disk' = r.disk
    /\ conns' = [conns EXCEPT ![c] = NoConn]
    /\ g_last_error' = LastErrorAfterSaves(
                           {registry.sessions[RecordAt(conns[c].persistent_session)]},
                           dirs, disk_writable, g_last_error)
    /\ UNCHANGED <<now, dirs, disk_writable, config_dir, at_shutdown, bufVars, codecVars, replayVars, saveVars, validateVars>>

\* the connection closes and its pss_tty points at a record that was freed:
\* persistent_session_handle_websocket_disconnection works on freed memory,
\* which either goes unnoticed or takes the server down
WsDisconnectFreed(c) ==
    /\ conns[c].connected
    /\ conns[c].persistent_session = DANGLING
    /\ \/ /\ conns' = [conns EXCEPT ![c] = NoConn]
          /\ UNCHANGED registry
       \/ /\ conns' = [d \in Conns |-> NoConn]
          /\ registry' = NoRegistry
    /\ UNCHANGED <<envVars, config_dir, at_shutdown, bufVars, codecVars, replayVars, saveVars, errVars, validateVars>>

\* the PTY of a connection produces output for the record its pss_tty points at
PtyOutput(c, data) ==
    /\ conns[c].connected
    /\ RecordAt(conns[c].persistent_session) # 0
    /\ LET i == RecordAt(conns[c].persistent_session)
       IN  /\ registry.sessions[i].total_bytes_written + Len(data) <= MaxSessionBytes
           /\ registry' = [registry EXCEPT
                              !.sessions[i] = persistent_session_handle_pty_output(@, data, now)]
    /\ UNCHANGED <<envVars, config_dir, conns, at_shutdown, bufVars, codecVars, replayVars, saveVars, errVars, validateVars>>

\* an explicit request to close a session
SessionClose(session_id) ==
    /\ registry.alive
    /\ LET r == persistent_session_handle_session_close(registry, session_id, disk)
       IN  /\ r.ok
           /\ registry' = r.registry
           /\ disk' = r.disk
           /\ conns' = AfterFree([c \in Conns |->
                                     IF c = r.closed
                                     THEN [conns[c] EXCEPT !.close_reason = TRUE]
                                     ELSE conns[c]],
                                  r.registry)
    /\ UNCHANGED <<now, dirs, disk_writable, config_dir, at_shutdown, bufVars, codecVars, replayVars, saveVars, errVars, validateVars>>

\* the maintenance timer fires
Maintenance ==
    /\ registry.alive
    /\ LET r == session_registry_maintenance(registry, disk, dirs, disk_writable, now)
       IN  /\ WithinSaveBound(r.registry, r.disk)
           /\ registry' = r.registry
           /\ disk' = r.disk
           /\ conns' = AfterFree(conns, r.registry)
    /\ g_last_error' = LastErrorAfterSaves(
                           {registry.sessions[i] : i \in {j \in 1..Len(registry.sessions) :
                               persistent_session_needs_saving(registry.sessions[j], now)}},
                           dirs, disk_writable, g_last_error)
    /\ UNCHANGED <<now, dirs, disk_writable, config_dir, at_shutdown, bufVars, codecVars, replayVars, saveVars, validateVars>>

Next ==
    \/ Tick
    \/ Startup
    \/ Shutdown
    \/ \E g \in GenIds, name \in {STR_BUILD} : CreateNew(g, name)
    \/ \E c \in Conns, id \in ClientIds : WsConnect(c, id)
    \/ \E c \in Conns : WsDisconnect(c)
    \/ \E c \in Conns : WsDisconnectFreed(c)
    \/ \E c \in Conns, data \in PtyChunks : PtyOutput(c, data)
    \/ \E id \in ClientIds : SessionClose(id)
    \/ Maintenance

Spec == Init /\ [][Next]_vars

\* SpecAltDir: the same server, its registry created with a state directory
\* that is not the default one; the default directory exists as well
AltInit ==
    /\ now = StartTime
    /\ disk = EmptyDisk
    /\ config_dir = ALT_STATE_DIR
    /\ disk_writable = TRUE
    /\ dirs = {config_dir, SESSION_STATE_DIR}
    /\ registry = session_registry_create(config_dir, StartTime)
    /\ conns = [c \in Conns |-> NoConn]
    /\ at_shutdown = NoSnapshots
    /\ BufIdle
    /\ CodecIdle
    /\ ReplayIdle
    /\ SaveIdle
    /\ ErrIdle
    /\ ValidateIdle

SpecAltDir == AltInit /\ [][Next]_vars

\* SpecCap: the same server with max_inactive_age configured above the
\* default, so that inactive records within the age limit can pile up past
\* the cap; sessions are created, attached, detached and swept
CapInit ==
    /\ now = StartTime
    /\ disk = EmptyDisk
    /\ config_dir = SESSION_STATE_DIR
    /\ disk_writable = TRUE
    /\ dirs = {SESSION_STATE_DIR}
    /\ registry = [session_registry_create(config_dir, StartTime) EXCEPT
                      !.max_inactive_age = CapMaxInactiveAge]
    /\ conns = [c \in Conns |-> NoConn]
    /\ at_shutdown = NoSnapshots
    /\ BufIdle
    /\ CodecIdle
    /\ ReplayIdle
    /\ SaveIdle
    /\ ErrIdle
    /\ ValidateIdle

CapNext ==
    \/ Tick
    \/ \E g \in GenIds, name \in {STR_BUILD} : CreateNew(g, name)
    \/ \E c \in Conns, id \in ClientIds : WsConnect(c, id)
    \/ \E c \in Conns : WsDisconnect(c)
    \/ Maintenance

SpecCap == CapInit /\ [][CapNext]_vars

---------------------------------------------------------------------------
(* SpecLoad: a state directory that holds one state file which this server *)
(* did not necessarily write (another version wrote it, or it was edited   *)
(* or cut short), loaded by persistent_session_load_from_disk and by the   *)
(* restore at server start.                                                *)

\* the file: a header as save_to_disk writes it with this SESSION_VERSION,
\* the BUFFER_ lines when buffer_size > 0, the sentinel line or not, and data
ForeignFile(version, buffer_size, sentinel, data) ==
    LET header ==
            << <<"SESSION_VERSION", version>>,
               <<"ID", ID_UUID_1>>,
               <<"NAME", STR_BUILD>>,
               <<"COMMAND", STR_BASH>>,
               <<"WORKING_DIR", STR_TMP>>,
               <<"CREATED_AT", StartTime>>,
               <<"LAST_ACCESSED", StartTime>>,
               <<"TERMINAL_COLS", 80>>,
               <<"TERMINAL_ROWS", 24>>,
               <<"PROCESS_PID", 0>>,
               <<"TOTAL_BYTES", buffer_size>>,
               <<"SAVE_COUNT", 1>> >>
        buffer_lines ==
            IF buffer_size > 0
            THEN << <<"BUFFER_SIZE", buffer_size>>,
                    <<"BUFFER_HEAD", 0>>,
                    <<"BUFFER_FULL", FALSE>> >>
            ELSE <<>>
    IN  [lines |-> header \o buffer_lines, sentinel |-> sentinel, data |-> data]

ForeignFiles ==
    {ForeignFile(version, buffer_size, sentinel, data) :
        version \in 1..MaxVersion,
        buffer_size \in 0..(MAX_BUFFER_SIZE + 1),
        sentinel \in BOOLEAN,
        data \in SeqsOfLen(Bytes, 0, MAX_BUFFER_SIZE + 1)}

\* the path of the file of SpecLoad
ForeignPath == persistent_session_get_state_file_path(ID_UUID_1, SESSION_STATE_DIR)

LoadInit ==
    /\ now = StartTime
    /\ dirs = {SESSION_STATE_DIR}
    /\ disk_writable = TRUE
    /\ \E file \in ForeignFiles : disk = (ForeignPath :> file)
    /\ BufIdle
    /\ CodecIdle
    /\ RegIdle
    /\ ReplayIdle
    /\ SaveIdle
    /\ ErrIdle
    /\ ValidateIdle

\* persistent_session_load_from_disk on the file; a copy past the end of the
\* buffer either goes unnoticed or takes the process down
LdLoad ==
    /\ restored = NoSession
    /\ \/ restored' = persistent_session_load_from_disk(
                           ID_UUID_1, SESSION_STATE_DIR, disk, 1, now)
       \/ LoadOverflows(disk[ForeignPath]) /\ restored' = Crashed
    /\ UNCHANGED <<rec, saved_rec, envVars, bufVars, regVars, replayVars, saveVars, errVars, validateVars>>

\* server start on the directory: session_registry_create, then
\* session_registry_load_from_disk
LdRestore ==
    /\ ~registry.alive
    /\ restored # Crashed
    /\ \/ /\ \E entries \in Orders(DirEntries(disk, config_dir)) :
                registry' = session_registry_load_from_disk(
                                session_registry_create(config_dir, now),
                                entries, disk, dirs, now)
          /\ UNCHANGED restored
       \/ /\ LoadOverflows(disk[ForeignPath])
          /\ restored' = Crashed
          /\ UNCHANGED registry
    /\ UNCHANGED <<rec, saved_rec, envVars, bufVars, config_dir, conns, at_shutdown, replayVars, saveVars, errVars, validateVars>>

LoadNext ==
    \/ LdLoad
    \/ LdRestore

SpecLoad == LoadInit /\ [][LoadNext]_vars

---------------------------------------------------------------------------
(* SpecCrash: persistent_session_save_to_disk taken one library call at a  *)
(* time (fopen, each fprintf and fwrite, fclose), with the process going   *)
(* down between any two of them.  What a write has put in the file by the  *)
(* time of the crash is a prefix of the complete file.                     *)

\* the file fopen(state_file, "w") leaves: created or truncated to nothing
EmptyFile == [lines |-> <<>>, sentinel |-> FALSE, data |-> <<>>]

\* the number of pieces save_to_disk writes: header lines, sentinel, bytes
FileUnits(file) ==
    Len(file.lines) + (IF file.sentinel THEN 1 ELSE 0) + Len(file.data)

\* the file after the first k pieces have been written
FilePrefix(file, k) ==
    [lines |-> SubSeq(file.lines, 1, Min(k, Len(file.lines))),
     sentinel |-> file.sentinel /\ k > Len(file.lines),
     data |-> IF k > Len(file.lines) + 1
              THEN SubSeq(file.data, 1, k - Len(file.lines) - 1)
              ELSE <<>>]

\* the path save_to_disk writes the session of SpecCrash to
CrashPath == persistent_session_get_state_file_path(rec.id, SESSION_STATE_DIR)

CrashInit ==
    /\ rec \in CodecRecords
    /\ saved_rec = NoSession
    /\ restored = NoSession
    /\ EnvIdle
    /\ BufIdle
    /\ RegIdle
    /\ ReplayIdle
    /\ SaveIdle
    /\ ErrIdle
    /\ ValidateIdle

\* output arrives between two saves
CrIngest(chunk) ==
    /\ rec # Crashed
    /\ ~saving.open
    /\ rec.total_bytes_written + Len(chunk) <= MaxCodecBytes
    /\ rec' = persistent_session_handle_pty_output(rec, chunk, now)
    /\ UNCHANGED <<saved_rec, restored, envVars, bufVars, regVars, replayVars, saveVars, errVars, validateVars>>

\* fopen(state_file, "w")
CrSaveOpen ==
    /\ rec # Crashed
    /\ ~saving.open
    /\ rec.save_count < MaxCrashSaves
    /\ CanWrite(CrashPath, dirs, disk_writable)
    /\ saving' = [open |-> TRUE, written |-> 0]
    /\ disk' = (CrashPath :> EmptyFile) @@ disk
    /\ UNCHANGED <<now, dirs, disk_writable, codecVars, bufVars, regVars, replayVars, errVars, validateVars>>

\* the next fprintf or fwrite
CrSaveWrite ==
    /\ rec # Crashed
    /\ saving.open
    /\ saving.written < FileUnits(StateFileOf(rec))
    /\ saving' = [saving EXCEPT !.written = @ + 1]
    /\ disk' = (CrashPath :> FilePrefix(StateFileOf(rec), saving.written + 1)) @@ disk
    /\ UNCHANGED <<now, dirs, disk_writable, codecVars, bufVars, regVars, replayVars, errVars, validateVars>>

\* fclose and the update of the session: the call as a whole has done what
\* persistent_session_save_to_disk does
CrSaveClose ==
    /\ rec # Crashed
    /\ saving.open
    /\ saving.written = FileUnits(StateFileOf(rec))
    /\ LET r == persistent_session_save_to_disk(rec, disk, dirs, disk_writable, now)
       IN  /\ rec' = r.session
           /\ disk' = r.disk
    /\ saved_rec' = rec
    /\ saving' = NotSaving
    /\ UNCHANGED <<now, dirs, disk_writable, restored, bufVars, regVars, replayVars, errVars, validateVars>>

\* the process goes down; the disk keeps what it holds
CrCrash ==
    /\ rec # Crashed
    /\ rec' = Crashed
    /\ saving' = NotSaving
    /\ UNCHANGED <<saved_rec, restored, envVars, bufVars, regVars, replayVars, errVars, validateVars>>

CrashNext ==
    \/ \E chunk \in Chunks : CrIngest(chunk)
    \/ CrSaveOpen
    \/ CrSaveWrite
    \/ CrSaveClose
    \/ CrCrash

SpecCrash == CrashInit /\ [][CrashNext]_vars

---------------------------------------------------------------------------
(* SpecRetry: a server whose disk refuses writes at first and takes them   *)
(* from some moment on.  Clients connect and their sessions produce        *)
(* output; the maintenance timer keeps firing (weak fairness).  The clock  *)
(* stands still, so a save is attempted for dirty records only.            *)

\* ids the clients of SpecRetry name
RetryIds == {ID_UUID_1, ID_LEGACY}

RetryInit ==
    /\ now = StartTime
    /\ disk = EmptyDisk
    /\ config_dir = SESSION_STATE_DIR
    /\ disk_writable = FALSE
    /\ dirs = {SESSION_STATE_DIR}
    /\ registry = session_registry_create(config_dir, StartTime)
    /\ conns = [c \in Conns |-> NoConn]
    /\ at_shutdown = NoSnapshots
    /\ BufIdle
    /\ CodecIdle
    /\ ReplayIdle
    /\ SaveIdle
    /\ ErrIdle
    /\ ValidateIdle

\* the maintenance timer fires: session_registry_maintenance
RtMaintenance ==
    /\ registry.alive
    /\ LET r == session_registry_maintenance(registry, disk, dirs, disk_writable, now)
       IN  /\ registry' = r.registry
           /\ disk' = r.disk
           /\ conns' = AfterFree(conns, r.registry)
    /\ g_last_error' = LastErrorAfterSaves(
                           {registry.sessions[i] : i \in {j \in 1..Len(registry.sessions) :
                               persistent_session_needs_saving(registry.sessions[j], now)}},
                           dirs, disk_writable, g_last_error)
    /\ UNCHANGED <<now, dirs, disk_writable, config_dir, at_shutdown, bufVars, codecVars, replayVars, saveVars, validateVars>>

\* the disk takes writes again
RtRepair ==
    /\ ~disk_writable
    /\ disk_writable' = TRUE
    /\ UNCHANGED <<now, disk, dirs, regVars, bufVars, codecVars, replayVars, saveVars, errVars, validateVars>>

RetryNext ==
    \/ \E c \in Conns, id \in RetryIds : WsConnect(c, id)
    \/ \E c \in Conns, data \in PtyChunks : PtyOutput(c, data)
    \/ RtMaintenance
    \/ RtRepair

SpecRetry == RetryInit /\ [][RetryNext]_vars /\ WF_vars(RtMaintenance)

---------------------------------------------------------------------------
(* SpecValidate: clients name one session id, drawn from strings of every  *)
(* length class and with characters on both sides of each accepted range.  *)

\* the string of n characters ch
Rep(ch, n) == [i \in 1..n |-> ch]

\* id with its k-th character replaced by ch
WithChar(id, k, ch) == [id EXCEPT ![k] = ch]

\* characters next to the accepted ranges in ASCII, and other punctuation
OddChars == {"/", ":", "@", "[", "^", "{", " ", ".", "~"}

CandidateIds ==
    {<<>>, ID_UUID_1, ID_LEGACY}
        \cup {<<ch>> : ch \in {"0", "9", "a", "z", "A", "Z", "_", "-"} \cup OddChars}
        \cup {WithChar(ID_UUID_1, k, ch) : k \in {1, 9, 36}, ch \in {"g", "_", "-", "/"}}
        \cup {Rep("a", n) : n \in {SESSION_ID_LENGTH, 63, 64, 65}}
        \cup {WithChar(Rep("a", 64), 64, ch) : ch \in OddChars}
        \cup {ID_LEGACY \o <<ch>> : ch \in OddChars}

ValidateInit ==
    /\ id_arg \in CandidateIds
    /\ id_valid = <<>>
    /\ ws_returned = <<>>
    /\ detach_returned = <<>>
    /\ now = StartTime
    /\ disk = EmptyDisk
    /\ config_dir = SESSION_STATE_DIR
    /\ disk_writable = TRUE
    /\ dirs = {SESSION_STATE_DIR}
    /\ registry = session_registry_create(config_dir, StartTime)
    /\ conns = [c \in Conns |-> NoConn]
    /\ at_shutdown = NoSnapshots
    /\ BufIdle
    /\ CodecIdle
    /\ ReplayIdle
    /\ SaveIdle
    /\ ErrIdle

\* persistent_session_validate_id(id_arg)
VdValidate ==
    /\ id_valid = <<>>
    /\ id_valid' = <<persistent_session_validate_id(id_arg)>>
    /\ UNCHANGED <<id_arg, ws_returned, detach_returned, envVars, bufVars, codecVars, regVars, replayVars, saveVars, errVars>>

\* a client connects and names id: persistent_session_handle_websocket_connection
VdConnect(c, id) ==
    /\ registry.alive
    /\ ~conns[c].connected
    /\ LET r == persistent_session_handle_websocket_connection(
                    registry, id, c, c, STR_TMP, FreshRef, ID_UUID_1, now)
       IN  /\ registry' = r.registry
           /\ ws_returned' = <<r.session>>
           /\ conns' = [conns EXCEPT ![c] =
                            IF r.session = NULL THEN NoConn
                            ELSE [connected |-> TRUE,
                                  persistent_session |-> r.session,
                                  close_reason |-> FALSE]]
    /\ UNCHANGED <<id_arg, id_valid, detach_returned, envVars, config_dir, at_shutdown, bufVars, codecVars, replayVars, saveVars, errVars>>

ValidateNext ==
    \/ VdValidate
    \/ \E c \in Conns : VdConnect(c, id_arg)
    \/ \E c \in Conns : VdConnect(c, ID_LEGACY)

SpecValidate == ValidateInit /\ [][ValidateNext]_vars

---------------------------------------------------------------------------
(* SpecReplay: one session, NumConns client connections that attach to it, *)
(* its PTY, and what each client receives: the replay frames written by    *)
(* the attach and the live output forwarded after it.                      *)

\* the id the clients of SpecReplay name
ReplayIds == {ID_LEGACY}

ReplayInit ==
    /\ EnvIdle
    /\ config_dir = SESSION_STATE_DIR
    /\ registry = session_registry_create(config_dir, StartTime)
    /\ conns = [c \in Conns |-> NoConn]
    /\ at_shutdown = NoSnapshots
    /\ ReplayIdle
    /\ SaveIdle
    /\ ErrIdle
    /\ ValidateIdle
    /\ BufIdle
    /\ CodecIdle

\* a client connects and names the session; it receives the frames the
\* connection handler writes
RpConnect(c, session_id) ==
    /\ ~conns[c].connected
    /\ LET r == persistent_session_handle_websocket_connection(
                    registry, session_id, c, c, STR_TMP, FreshRef, ID_UUID_1, now)
       IN  /\ r.session # NULL
           /\ registry' = r.registry
           /\ conns' = [conns EXCEPT ![c] = [connected |-> TRUE,
                                             persistent_session |-> r.session,
                                             close_reason |-> FALSE]]
           /\ frames' = [frames EXCEPT ![c] = r.frames]
           /\ delivered' = [delivered EXCEPT ![c] = Flatten(r.frames)]
    /\ UNCHANGED <<envVars, config_dir, at_shutdown, bufVars, codecVars, saveVars, errVars, validateVars>>

\* the PTY of a connection produces output: the record ingests it, and it
\* is written to the connection attached to the record, if there is one
RpPtyOutput(c, data) ==
    /\ conns[c].connected
    /\ RecordAt(conns[c].persistent_session) # 0
    /\ LET i == RecordAt(conns[c].persistent_session)
           session == registry.sessions[i]
       IN  /\ session.total_bytes_written + Len(data) <= MaxReplayBytes
           /\ registry' = [registry EXCEPT
                              !.sessions[i] = persistent_session_handle_pty_output(@, data, now)]
           /\ delivered' = IF session.current_pss # NULL
                           THEN [delivered EXCEPT ![session.current_pss] = @ \o data]
                           ELSE delivered
    /\ UNCHANGED <<envVars, config_dir, conns, at_shutdown, frames, bufVars, codecVars, saveVars, errVars, validateVars>>

\* the connection closes; its client is gone
RpDisconnect(c) ==
    /\ conns[c].connected
    /\ RecordAt(conns[c].persistent_session) # 0
    /\ LET r == persistent_session_handle_websocket_disconnection(
                    registry, RecordAt(conns[c].persistent_session),
                    disk, dirs, disk_writable, now)
       IN  /\ \A i \in 1..Len(r.registry.sessions) :
                  r.registry.sessions[i].save_count <= MaxReplaySaves
           /\ registry' = r.registry
           /\ disk' = r.disk
    /\ conns' = [conns EXCEPT ![c] = NoConn]
    /\ frames' = [frames EXCEPT ![c] = <<>>]
    /\ delivered' = [delivered EXCEPT ![c] = <<>>]
    /\ g_last_error' = LastErrorAfterSaves(
                           {registry.sessions[RecordAt(conns[c].persistent_session)]},
                           dirs, disk_writable, g_last_error)
    /\ UNCHANGED <<now, dirs, disk_writable, config_dir, at_shutdown, bufVars, codecVars, saveVars, validateVars>>

ReplayNext ==
    \/ \E c \in Conns, id \in ReplayIds : RpConnect(c, id)
    \/ \E c \in Conns, data \in Chunks : RpPtyOutput(c, data)
    \/ \E c \in Conns : RpDisconnect(c)

SpecReplay == ReplayInit /\ [][ReplayNext]_vars

\* SpecReplayFail: the same session and clients, where lws_write may fail
\* on a replay frame.

\* a client connects and names the session, and lws_write returns < 0 for
\* frame k + 1 of the replay: send_buffer_to_client stops there and returns
\* false, which the connection handler does not look at
RpConnectWriteFails(c, session_id, k) ==
    /\ ~conns[c].connected
    /\ LET r == persistent_session_handle_websocket_connection(
                    registry, session_id, c, c, STR_TMP, FreshRef, ID_UUID_1, now)
       IN  /\ r.session # NULL
           /\ k < Len(r.frames)
           /\ registry' = r.registry
           /\ ws_returned' = <<r.session>>
           /\ conns' = [conns EXCEPT ![c] = [connected |-> TRUE,
                                             persistent_session |-> r.session,
                                             close_reason |-> FALSE]]
           /\ frames' = [frames EXCEPT ![c] = SubSeq(r.frames, 1, k)]
           /\ delivered' = [delivered EXCEPT ![c] = Flatten(SubSeq(r.frames, 1, k))]
    /\ UNCHANGED <<id_arg, id_valid, detach_returned, envVars, config_dir, at_shutdown, bufVars, codecVars, saveVars, errVars>>

ReplayFailNext ==
    \/ ReplayNext
    \/ \E c \in Conns, id \in ReplayIds, k \in 0..MAX_BUFFER_SIZE :
          RpConnectWriteFails(c, id, k)

SpecReplayFail == ReplayInit /\ [][ReplayFailNext]_vars

---------------------------------------------------------------------------
(* Claims *)

\* C1: after appends totalling T bytes to a buffer that started empty,
\* size = min(T, capacity) and get_contents returns the last min(T, capacity)
\* bytes of the concatenated input, in input order.
C1_SnapshotIsTail ==
    /\ tb.size = Min(Len(tb_input), tb.capacity)
    /\ terminal_buffer_get_contents(tb) = LastN(tb_input, Min(Len(tb_input), tb.capacity))

\* C1 witness: the ring has wrapped (more input than capacity, head inside the array)
C1_Witness ==
    /\ Len(tb_input) > tb.capacity
    /\ tb.is_full
    /\ tb.head > 0
    /\ \E i \in 1..tb.capacity : tb.data[i] # tb.data[1]

\* C2: a record loaded back from the file a save wrote has the id, name,
\* command, working directory, creation time, dimensions and pid of the
\* saved record, its save_count plus one, and the same buffer snapshot.
C2_RoundTrip ==
    restored # NoSession =>
        /\ restored.id = saved_rec.id
        /\ restored.name = saved_rec.name
        /\ restored.command = saved_rec.command
        /\ restored.working_directory = saved_rec.working_directory
        /\ restored.created_at = saved_rec.created_at
        /\ restored.terminal_cols = saved_rec.terminal_cols
        /\ restored.terminal_rows = saved_rec.terminal_rows
        /\ restored.process_pid = saved_rec.process_pid
        /\ restored.save_count = saved_rec.save_count + 1
        /\ terminal_buffer_get_contents(restored.buffer)
             = terminal_buffer_get_contents(saved_rec.buffer)

\* the records of the registry a connection is attached to, by position
AttachedAt(reg) == {i \in 1..Len(reg.sessions) : reg.sessions[i].current_pss # NULL}

\* C3: at a restart on the same state directory (the disk taking writes), a
\* client attaching to an id that existed at shutdown finds that session in
\* the registry and is sent, as replay, the snapshot it had at shutdown.
C3_ScrollbackSurvivesRestart ==
    [][(Startup /\ disk_writable) =>
          \A id \in DOMAIN at_shutdown :
              /\ persistent_session_find_by_id(registry', id) # 0
              /\ Flatten(persistent_session_handle_websocket_connection(
                             registry', id, 1, 1, STR_TMP, MaxRecords + 1, ID_UUID_1,
                             now).frames)
                   = at_shutdown[id]]_vars

\* C4: no two connections hold the same session record.
C4_AttachExclusive ==
    \A c1, c2 \in Conns :
        (/\ c1 # c2
         /\ conns[c1].connected
         /\ conns[c2].connected
         /\ conns[c1].persistent_session \in LiveRefs(registry))
            => conns[c1].persistent_session # conns[c2].persistent_session

\* C5: for every record of the registry, is_active is true exactly when a
\* connection is attached (current_pss and current_wsi set).
C5_ActiveIffAttached ==
    \A i \in 1..Len(registry.sessions) :
        LET s == registry.sessions[i]
        IN  s.is_active <=> (s.current_pss # NULL /\ s.current_wsi # NULL)

\* C5 witness: a record that was attached, taken over by a second
\* connection and then detached when that one went away: the first
\* connection still refers to it, and it is inactive
C5_Witness ==
    \E c1, c2 \in Conns :
        /\ c1 # c2
        /\ conns[c1].connected
        /\ ~conns[c2].connected
        /\ RecordAt(conns[c1].persistent_session) # 0
        /\ LET s == registry.sessions[RecordAt(conns[c1].persistent_session)]
           IN  /\ ~s.is_active
               /\ s.current_pss = NULL
               /\ s.save_count > 0

\* C6: no connection is left referring to a destroyed record.
C6_RecordOutlivesAttachment ==
    \A c \in Conns : conns[c].connected => conns[c].persistent_session # DANGLING

\* C7: a disconnect detaches the record, attempts a checkpoint at once (the
\* state file holds the buffer snapshot when the disk takes the write; the
\* record stays dirty when it does not), and leaves the record in the
\* registry with its buffer unchanged, where find on its id returns it.
C7_DisconnectKeepsRecord ==
    [][\A c \in Conns :
          WsDisconnect(c) =>
              LET before == registry.sessions[RecordAt(conns[c].persistent_session)]
                  j == persistent_session_find_by_id(registry', before.id)
                  path == <<SESSION_STATE_DIR, before.id \o DOT_STATE>>
              IN  /\ j # 0
                  /\ registry'.sessions[j].ref = before.ref
                  /\ registry'.sessions[j].buffer = before.buffer
                  /\ registry'.sessions[j].current_pss = NULL
                  /\ registry'.sessions[j].current_wsi = NULL
                  /\ ~registry'.sessions[j].is_active
                  /\ Len(registry'.sessions) = Len(registry.sessions)
                  /\ IF disk_writable
                     THEN /\ path \in DOMAIN disk'
                          /\ disk'[path].data = terminal_buffer_get_contents(before.buffer)
                          /\ HeaderValue(disk'[path].lines, "SAVE_COUNT", 0)
                               = before.save_count + 1
                          /\ registry'.sessions[j].save_count = before.save_count + 1
                          /\ ~registry'.sessions[j].needs_save
                     ELSE /\ disk' = disk
                          /\ registry'.sessions[j].save_count = before.save_count
                          /\ registry'.sessions[j].needs_save]_vars

\* C7 witness: a record with scrollback whose connection went away: nobody
\* is attached or refers to it, it is in the registry and was checkpointed
C7_Witness ==
    /\ disk_writable
    /\ \A c \in Conns : ~conns[c].connected
    /\ \E i \in 1..Len(registry.sessions) :
          LET s == registry.sessions[i]
          IN  /\ ~s.is_active
              /\ s.current_pss = NULL
              /\ s.buffer.size > 0
              /\ s.save_count = 1
              /\ s.last_saved = s.last_accessed
              /\ s.last_accessed > s.created_at
              /\ <<SESSION_STATE_DIR, s.id \o DOT_STATE>> \in DOMAIN disk

\* C8: a maintenance run removes no record that has a connection attached.
C8_AttachedNeverEvicted ==
    [][Maintenance =>
          \A i \in AttachedAt(registry) :
              registry.sessions[i].ref \in LiveRefs(registry')]_vars

\* C8 witness: the registry is over its cap and an eviction sweep has run
\* since a record, still attached, was last touched; its age is past the limit
C8_Witness ==
    /\ registry.alive
    /\ registry.total_count > registry.max_sessions
    /\ \E i \in AttachedAt(registry) :
          /\ registry.sessions[i].last_accessed < registry.last_cleanup
          /\ registry.last_cleanup - registry.sessions[i].last_accessed
               > registry.max_inactive_age

\* C9: total_count equals the number of records in the registry's list.
C9_TotalCountIsLength ==
    registry.alive => registry.total_count = Len(registry.sessions)

\* C9 witness: a registry that holds a record restored from disk after a
\* record created by an attach was destroyed (a connection still refers to it)
C9_Witness ==
    /\ registry.alive
    /\ registry.total_count = 1
    /\ \E c \in Conns : conns[c].persistent_session = DANGLING
    /\ \E i \in 1..Len(registry.sessions) :
          /\ registry.sessions[i].save_count > 0
          /\ registry.sessions[i].created_at < registry.last_cleanup

\* C10: active_count equals the number of records with a connection attached.
C10_ActiveCountIsAttached ==
    registry.alive => registry.active_count = Cardinality(AttachedAt(registry))

\* C11: the registry holds at most one record per session id.
C11_OneRecordPerId ==
    \A i, j \in 1..Len(registry.sessions) :
        i # j => registry.sessions[i].id # registry.sessions[j].id

\* C11 witness: two records under different ids, both attached: one that
\* was checkpointed before (saved by maintenance or restored at startup) and
\* one created by the attach of a connection naming an unknown id
C11_Witness ==
    /\ Len(registry.sessions) = 2
    /\ \E i, j \in AttachedAt(registry) :
          /\ registry.sessions[i].created_at < registry.last_cleanup
          /\ registry.sessions[i].save_count > 0
          /\ registry.sessions[j].save_count = 0
          /\ registry.sessions[j].name = registry.sessions[j].id

\* the buffer snapshot of the session with this id, empty when there is none
SnapshotOf(reg, id) ==
    LET i == persistent_session_find_by_id(reg, id)
    IN  IF i = 0 THEN <<>> ELSE terminal_buffer_get_contents(reg.sessions[i].buffer)

\* C12: an attach to a session whose snapshot has L bytes writes
\* ceil(L / chunk size) OUTPUT frames to the client, every payload at most
\* one chunk, all but the last exactly one chunk, and the payloads
\* concatenated in send order are the snapshot; L = 0 gives no frame.
C12_ReplayChunking ==
    [][\A c \in Conns, id \in ReplayIds :
          RpConnect(c, id) =>
              LET snapshot == SnapshotOf(registry, id)
                  n == (Len(snapshot) + REPLAY_CHUNK_SIZE - 1) \div REPLAY_CHUNK_SIZE
              IN  /\ Len(frames'[c]) = n
                  /\ \A k \in 1..n :
                        /\ frames'[c][k].type = OUTPUT
                        /\ Len(frames'[c][k].payload) <= REPLAY_CHUNK_SIZE
                        /\ k < n => Len(frames'[c][k].payload) = REPLAY_CHUNK_SIZE
                  /\ Flatten(frames'[c]) = snapshot]_vars

\* C12 witness: a replay of more than one frame whose last frame is shorter
\* than a chunk, taken from a ring that has wrapped
C12_Witness ==
    \E c \in Conns :
        /\ Len(frames[c]) > 1
        /\ Len(frames[c][Len(frames[c])].payload) < REPLAY_CHUNK_SIZE
        /\ Len(frames[c][1].payload) = REPLAY_CHUNK_SIZE
        /\ \E i \in 1..Len(registry.sessions) :
              registry.sessions[i].total_bytes_written > MAX_BUFFER_SIZE

\* the connection attached to a record has received a stream that ends with
\* the record's buffer contents
DeliveredEndsWithBuffer ==
    \A i \in AttachedAt(registry) :
        LET session == registry.sessions[i]
        IN  terminal_buffer_get_contents(session.buffer)
              = LastN(delivered[session.current_pss], session.buffer.size)

C14_Displacement ==
    [][\A c2 \in Conns, id \in ReplayIds :
          RpConnect(c2, id) =>
              LET i == persistent_session_find_by_id(registry, id)
              IN  (i # 0 /\ registry.sessions[i].current_pss \notin {NULL, c2}) =>
                      LET c1 == registry.sessions[i].current_pss
                          j == persistent_session_find_by_id(registry', id)
                      IN  /\ conns'[c1].close_reason \/ ~conns'[c1].connected
                          /\ registry'.sessions[j].current_pss = c2
                          /\ registry'.sessions[j].current_wsi = c2
                          /\ Flatten(frames'[c2]) = SnapshotOf(registry, id)]_vars

\* the stem of a directory entry that ends in ".state", NULL_STR for others
StemOf(d_name) ==
    LET ext == LastDot(d_name)
    IN  IF ext < 0 \/ SubSeq(d_name, ext + 1, Len(d_name)) # DOT_STATE THEN NULL_STR
        ELSE SubSeq(d_name, 1, ext)

\* C15: restore from disk inserts one record for every file <stem>.state of
\* the state directory whose stem is a valid session identifier, and no
\* record for any other entry.
C15_RestoreByValidStem ==
    [][Startup =>
          LET stems == {StemOf(d) : d \in DirEntries(disk, config_dir)}
              valid == {st \in stems : st # NULL_STR /\ persistent_session_validate_id(st)}
          IN  /\ \A st \in valid :
                    Cardinality({i \in 1..Len(registry'.sessions) :
                                    registry'.sessions[i].id = st}) = 1
              /\ \A i \in 1..Len(registry'.sessions) :
                    registry'.sessions[i].id \in valid]_vars

\* C16: whatever state directory the registry was created with, every
\* state file is under that directory, and a record that has been
\* checkpointed has its file at {state_dir}/{id}.state there.
C16_FilesInStateDirectory ==
    registry.alive =>
        /\ \A p \in DOMAIN disk : p[1] = registry.state_directory
        /\ \A i \in 1..Len(registry.sessions) :
              registry.sessions[i].save_count > 0 =>
                  <<registry.state_directory, registry.sessions[i].id \o DOT_STATE>>
                      \in DOMAIN disk

\* whether this maintenance run reaches the eviction sweep
SweepRuns == (now - registry.last_cleanup) > CLEANUP_INTERVAL

\* C17: when an eviction sweep runs, every record with no connection attached
\* whose time since last_accessed exceeds max_inactive_age is removed, no
\* state file of it exists afterwards and a lookup of its id finds nothing;
\* inactive records within the age limit are kept while the registry is at
\* or under the cap.
C17_AgeEviction ==
    [][(Maintenance /\ SweepRuns) =>
          \A i \in 1..Len(registry.sessions) :
              LET session == registry.sessions[i]
                  age == now - session.last_accessed
              IN  /\ (session.current_pss = NULL /\ age > registry.max_inactive_age) =>
                        /\ session.ref \notin LiveRefs(registry')
                        /\ persistent_session_find_by_id(registry', session.id) = 0
                        /\ \A p \in DOMAIN disk' : p[2] # session.id \o DOT_STATE
                  /\ (/\ session.current_pss = NULL
                      /\ age <= registry.max_inactive_age
                      /\ registry.total_count <= registry.max_sessions) =>
                        session.ref \in LiveRefs(registry')]_vars

\* C18: when a sweep removes inactive records for capacity (records within
\* the age limit), it removes the least recently accessed ones: no inactive
\* record is removed while an inactive record accessed before it is kept.
C18_CapacityEvictsOldest ==
    [][(Maintenance /\ SweepRuns) =>
          \A i, j \in 1..Len(registry.sessions) :
              LET removed == registry.sessions[i]
                  kept == registry.sessions[j]
              IN  (/\ ~removed.is_active
                   /\ now - removed.last_accessed <= registry.max_inactive_age
                   /\ removed.ref \notin LiveRefs(registry')
                   /\ ~kept.is_active
                   /\ kept.ref \in LiveRefs(registry'))
                      => kept.last_accessed >= removed.last_accessed]_vars

\* C19: a state file whose SESSION_VERSION is greater than 1 is refused on
\* load: no record is produced from it and none is inserted in the registry.
C19_NewerVersionRefused ==
    [][HeaderValue(disk[ForeignPath].lines, "SESSION_VERSION", 1) > 1 =>
          /\ LdLoad => restored' \in {NoSession, Crashed}
          /\ LdRestore => registry'.sessions = <<>>]_vars

\* C20: loading a state file whose BUFFER_SIZE exceeds the buffer capacity
\* succeeds, and the loaded buffer holds exactly the last capacity bytes of
\* the stored segment, with size = capacity and nothing outside the array.
C20_OversizeSegmentClamped ==
    [][(LdLoad /\ LoadOverflows(disk[ForeignPath])) =>
          LET file == disk[ForeignPath]
              segment == SubSeq(file.data, 1, HeaderValue(file.lines, "BUFFER_SIZE", 0))
          IN  /\ restored' \notin {NoSession, Crashed}
              /\ restored'.buffer.size = restored'.buffer.capacity
              /\ restored'.buffer.size <= MAX_BUFFER_SIZE
              /\ restored'.buffer.data = LastN(segment, MAX_BUFFER_SIZE)]_vars

\* whether the data after the sentinel is shorter than BUFFER_SIZE declares
ShortSegment(file) ==
    /\ file.sentinel
    /\ Len(file.data) < HeaderValue(file.lines, "BUFFER_SIZE", 0)

\* C21: loading a state file whose buffer segment holds fewer bytes than its
\* BUFFER_SIZE header declares fails: no record, with an empty or a partial
\* buffer, is produced from it.
C21_ShortSegmentRefused ==
    [][(LdLoad /\ ShortSegment(disk[ForeignPath])) => restored' = NoSession]_vars

\* the name a quarantined state file is given
DOT_CORRUPT == <<".","c","o","r","r","u","p","t">>

\* the path of the quarantined file of SpecLoad
CorruptPath == <<ForeignPath[1], ForeignPath[2] \o DOT_CORRUPT>>

\* C22: during restore a corrupted state file (one with a SESSION_VERSION this
\* program does not write) is renamed to {id}.state.corrupt and produces no
\* record; afterwards its bytes exist on disk under the .corrupt name.
C22_CorruptFileQuarantined ==
    [][(LdRestore /\ registry'.alive
          /\ HeaderValue(disk[ForeignPath].lines, "SESSION_VERSION", 1) > 1) =>
          /\ registry'.sessions = <<>>
          /\ CorruptPath \in DOMAIN disk'
          /\ disk'[CorruptPath] = disk[ForeignPath]]_vars

\* C23: if the process goes down during persistent_session_save_to_disk while
\* a valid checkpoint of the session is on disk, the file {id}.state is then
\* the complete previous checkpoint or the complete new one.
C23_CrashSafeCheckpoint ==
    [][(CrCrash /\ saved_rec # NoSession /\ saving.open) =>
          disk'[CrashPath] \in {StateFileOf(saved_rec), StateFileOf(rec)}]_vars

\* the record at address ref is in the registry and is marked dirty
Dirty(ref) ==
    \E i \in 1..Len(registry.sessions) :
        /\ registry.sessions[i].ref = ref
        /\ registry.sessions[i].needs_save

\* the record at address ref is clean and the state file of its last save,
\* with all the output it has taken, is on disk
Checkpointed(ref) ==
    \E i \in 1..Len(registry.sessions) :
        LET session == registry.sessions[i]
            path == persistent_session_get_state_file_path(session.id, SESSION_STATE_DIR)
        IN  /\ session.ref = ref
            /\ ~session.needs_save
            /\ session.save_count > 0
            /\ path \in DOMAIN disk
            /\ HeaderValue(disk[path].lines, "SAVE_COUNT", 0) = session.save_count
            /\ HeaderValue(disk[path].lines, "TOTAL_BYTES", 0) = session.total_bytes_written

C25_AttachToOccupiedFails ==
    \A i \in AttachedAt(registry), c \in Conns :
        c # registry.sessions[i].current_pss =>
            LET r == persistent_session_attach_connection(registry.sessions[i], c, c, now)
            IN  /\ ~r.ok
                /\ r.session = registry.sessions[i]

\* the ids of the specification: 1 to 64 characters of [0-9a-zA-Z_-]
WellFormedId(id) ==
    /\ Len(id) >= 1
    /\ Len(id) <= 64
    /\ \A i \in 1..Len(id) : id[i] \in DIGITS \cup LOWER \cup UPPER \cup {"_", "-"}

\* C26: persistent_session_validate_id accepts a string exactly when it has
\* 1 to 64 characters, all of them in [0-9a-zA-Z_-]; a connection that names
\* an id failing this test gets no session and leaves the registry and the
\* attachments as they are.
C26_MalformedIdRejected ==
    /\ [](id_valid # <<>> => (id_valid[1] <=> WellFormedId(id_arg)))
    /\ [][\A c \in Conns :
            (VdConnect(c, id_arg) /\ ~WellFormedId(id_arg)) =>
                /\ ws_returned' = <<NULL>>
                /\ registry' = registry
                /\ conns' = conns]_vars

\* an id of an accepted length with a character outside the set was refused
\* by validate_id and by the connection handler, next to a live session
C26_Witness ==
    /\ Len(id_arg) \in 1..64
    /\ id_valid = <<FALSE>>
    /\ ws_returned = <<NULL>>
    /\ Len(registry.sessions) = 1

\* C27: persistent_session_destroy(id) on an id of the registry removes that
\* record and no other (count one less), leaves no state file of the session
\* on disk and no other file changed, sends a normal closure to the attached
\* connection, and find(id) then finds nothing; on an id that is not in the
\* registry it fails and changes nothing.
C27_DestroyRemovesExactlyOne ==
    /\ [][\A id \in ClientIds :
            SessionClose(id) =>
                LET i == FirstWithId(registry.sessions, id)
                    current == registry.sessions[i]
                IN  /\ registry'.sessions = RemoveAt(registry.sessions, i)
                    /\ registry'.total_count = registry.total_count - 1
                    /\ \A p \in DOMAIN disk' : p[2] # id \o DOT_STATE
                    /\ \A p \in DOMAIN disk :
                          p[2] # id \o DOT_STATE => (p \in DOMAIN disk' /\ disk'[p] = disk[p])
                    /\ current.current_pss # NULL => conns'[current.current_pss].close_reason
                    /\ persistent_session_find_by_id(registry', id) = 0]_vars
    /\ [](\A id \in ClientIds :
            (registry.alive /\ FirstWithId(registry.sessions, id) = 0) =>
                LET r == persistent_session_destroy(registry, id, disk)
                IN  ~r.ok /\ r.registry = registry /\ r.disk = disk)

\* C28: persistent_session_handle_websocket_connection with a valid id returns
\* the record with that id when there is one and creates nothing; otherwise
\* it creates exactly one record, with the id the client named and an empty
\* buffer.  Either way the record returned has the calling connection attached.
C28_AttachOrCreate ==
    registry.alive =>
        \A c \in Conns, id \in ClientIds :
            LET r == persistent_session_handle_websocket_connection(
                         registry, id, c, c, STR_TMP, FreshRef, ID_UUID_1, now)
                i == persistent_session_find_by_id(registry, id)
                n == Len(registry.sessions)
            IN  IF i # 0
                THEN /\ r.session = registry.sessions[i].ref
                     /\ Len(r.registry.sessions) = n
                     /\ \A j \in (1..n) \ {i} : r.registry.sessions[j] = registry.sessions[j]
                     /\ r.registry.sessions[i].id = id
                     /\ r.registry.sessions[i].buffer = registry.sessions[i].buffer
                     /\ r.registry.sessions[i].current_pss = c
                     /\ r.registry.sessions[i].current_wsi = c
                ELSE /\ Len(r.registry.sessions) = n + 1
                     /\ Tail(r.registry.sessions) = registry.sessions
                     /\ r.registry.total_count = registry.total_count + 1
                     /\ r.session = r.registry.sessions[1].ref
                     /\ r.session \notin LiveRefs(registry) \cup {NULL}
                     /\ r.registry.sessions[1].id = id
                     /\ terminal_buffer_get_contents(r.registry.sessions[1].buffer) = <<>>
                     /\ r.registry.sessions[1].current_pss = c
                     /\ r.registry.sessions[1].current_wsi = c

\* a record that a connection created under a client-named id (no generated
\* id has this shape) is attached and holds output, while the other id is
\* not in the registry: the next connection finds the one and creates the other
C28_Witness ==
    /\ registry.alive
    /\ persistent_session_find_by_id(registry, ID_UUID_1) = 0
    /\ \E i \in AttachedAt(registry) :
          /\ registry.sessions[i].id = ID_LEGACY
          /\ registry.sessions[i].buffer.size > 0

\* C29: when writing a replay frame to a newly attached connection fails, the
\* connection is detached from the record again and the setup fails: the
\* record does not have that connection attached and the caller gets no
\* session.
C29_ReplayFailureDetaches ==
    [][\A c \in Conns, id \in ReplayIds, k \in 0..MAX_BUFFER_SIZE :
          RpConnectWriteFails(c, id, k) =>
              LET i == persistent_session_find_by_id(registry', id)
              IN  /\ registry'.sessions[i].current_pss # c
                  /\ registry'.sessions[i].current_wsi # c
                  /\ ws_returned' = <<NULL>>]_vars

\* C30: in every reachable state of a buffer, size <= capacity, and is_full
\* is true exactly when size = capacity; this includes the state after
\* appends that fill the buffer to its capacity without exceeding it.
C30_FullIffSizeIsCapacity ==
    /\ tb.size <= tb.capacity
    /\ tb.is_full <=> (tb.size = tb.capacity)

\* C31: in every reachable state of a buffer, head is a next-write offset
\* inside the array, 0 <= head < capacity, and while the buffer is not full
\* head = size.
C31_HeadIsValidOffset ==
    /\ 0 <= tb.head
    /\ tb.head < tb.capacity
    /\ ~tb.is_full => tb.head = tb.size

\* C32: a buffer loaded from a state file is linear: head = size, is_full is
\* (size = capacity), and positions 0 .. size - 1 of its data are the stored
\* segment in order, whatever head and wrap state the saved buffer had.
C32_LoadedBufferIsLinear ==
    restored # NoSession =>
        LET buffer == restored.buffer
            file == disk[persistent_session_get_state_file_path(rec.id, SESSION_STATE_DIR)]
        IN  /\ buffer.head = buffer.size
            /\ buffer.is_full <=> (buffer.size = buffer.capacity)
            /\ SubSeq(buffer.data, 1, buffer.size) = file.data

C34_SweepOncePerInterval ==
    [][Maintenance =>
          IF (now - registry.last_cleanup) > CLEANUP_INTERVAL
          THEN registry'.last_cleanup = now
          ELSE /\ registry'.last_cleanup = registry.last_cleanup
               /\ Len(registry'.sessions) = Len(registry.sessions)
               /\ \A i \in 1..Len(registry.sessions) :
                     registry'.sessions[i].ref = registry.sessions[i].ref
               /\ registry'.total_count = registry.total_count
               /\ DOMAIN disk \subseteq DOMAIN disk']_vars

\* a sweep has run at the present time, and the registry is over its cap
\* with inactive records, one of them checkpointed: the records a sweep
\* would remove are still there
C34_Witness ==
    /\ registry.alive
    /\ registry.last_cleanup = now
    /\ now > StartTime
    /\ registry.total_count > registry.max_sessions
    /\ \A i \in 1..Len(registry.sessions) : ~registry.sessions[i].is_active
    /\ \E i \in 1..Len(registry.sessions) :
          /\ registry.sessions[i].save_count > 0
          /\ ~registry.sessions[i].needs_save
          /\ registry.sessions[i].created_at = now

\* C35: after an eviction sweep either the count of records is at or under
\* max_sessions or no inactive record remains; and an inactive record within
\* the age limit is removed only while the count, as the removals before it
\* in the sweep have left it, is still over max_sessions.
C35_CapacityEvictionStopsAtCap ==
    [][(Maintenance /\ SweepRuns) =>
          LET before == registry.sessions
              Removed(i) == before[i].ref \notin LiveRefs(registry')
              CountAt(i) == registry.total_count
                               - Cardinality({k \in 1..(i - 1) : Removed(k)})
          IN  /\ \/ registry'.total_count <= registry.max_sessions
                 \/ \A j \in 1..Len(registry'.sessions) :
                       registry'.sessions[j].is_active
              /\ \A i \in 1..Len(before) :
                    (/\ Removed(i)
                     /\ ~before[i].is_active
                     /\ now - before[i].last_accessed <= registry.max_inactive_age)
                        => CountAt(i) > registry.max_sessions]_vars

\* a sweep has just brought the registry down to its cap: it freed a record
\* a displaced connection still points at, and kept the other record, which
\* is inactive and within the age limit
C35_Witness ==
    /\ registry.alive
    /\ registry.last_cleanup = now
    /\ now > StartTime
    /\ registry.total_count = registry.max_sessions
    /\ Len(registry.sessions) = 1
    /\ \E c \in Conns : conns[c].persistent_session = DANGLING
    /\ ~registry.sessions[1].is_active
    /\ now - registry.sessions[1].last_accessed <= registry.max_inactive_age

\* C36: ingesting n >= 1 bytes into a record appends them to its buffer in
\* arrival order (the snapshot becomes the tail of the old snapshot followed
\* by the bytes), adds exactly n to total_bytes_written and sets needs_save;
\* no other operation on a record changes total_bytes_written, which starts
\* at 0 in a new record, so it never decreases and is the number of bytes
\* ingested since creation.
C36_IngestCountsEveryByte ==
    [][\A j \in 1..Len(registry'.sessions) :
          LET after == registry'.sessions[j]
              at == {i \in 1..Len(registry.sessions) : registry.sessions[i].ref = after.ref}
          IN  IF at = {}
              THEN after.total_bytes_written = 0
              ELSE LET before == registry.sessions[CHOOSE i \in at : TRUE]
                       old == terminal_buffer_get_contents(before.buffer)
                   IN  /\ after.total_bytes_written >= before.total_bytes_written
                       /\ \A c \in Conns, data \in Chunks :
                             (RpPtyOutput(c, data) /\ conns[c].persistent_session = before.ref)
                                 => /\ after.total_bytes_written
                                          = before.total_bytes_written + Len(data)
                                    /\ after.needs_save
                                    /\ after.last_accessed = now
                                    /\ terminal_buffer_get_contents(after.buffer)
                                          = LastN(old \o data,
                                                  Min(Len(old) + Len(data),
                                                      before.buffer.capacity))
                       /\ (~ \E c \in Conns, data \in Chunks :
                               RpPtyOutput(c, data) /\ conns[c].persistent_session = before.ref)
                             => after.total_bytes_written = before.total_bytes_written]_vars

\* a record that ingested more bytes than its buffer holds, in more than one
\* chunk, after having been checkpointed, and is marked for saving
C36_Witness ==
    \E i \in 1..Len(registry.sessions) :
        LET session == registry.sessions[i]
        IN  /\ session.total_bytes_written > session.buffer.capacity
            /\ session.buffer.is_full
            /\ session.buffer.head > 0
            /\ session.save_count > 0
            /\ session.needs_save
            /\ ~session.is_active

---------------------------------------------------------------------------
(* SpecResume: the record of SpecCodec is saved and loaded back, and the   *)
(* restored record goes on ingesting PTY output.                           *)

\* the restored record ingests a chunk
RsIngest(chunk) ==
    /\ restored.ref # NULL
    /\ restored.total_bytes_written + Len(chunk)
          <= saved_rec.total_bytes_written + MaxResumeBytes
    /\ restored' = persistent_session_handle_pty_output(restored, chunk, now)
    /\ UNCHANGED <<rec, saved_rec, envVars, bufVars, regVars, replayVars, saveVars, errVars, validateVars>>

ResumeNext ==
    \/ \E chunk \in Chunks : CodecIngest(chunk)
    \/ CodecSave
    \/ CodecLoad
    \/ \E chunk \in Chunks : RsIngest(chunk)

SpecResume == CodecInit /\ [][ResumeNext]_vars

\* C40: a record saved with buffer snapshot S, wrapped or not, and loaded
\* back, which then ingests the bytes D, has as snapshot the last
\* min(|S| + |D|, capacity) bytes of S followed by D.
C40_ScrollbackContinuesAfterRestore ==
    [][\A chunk \in Chunks :
          (RsIngest(chunk)
              /\ restored.total_bytes_written = saved_rec.total_bytes_written)
          => LET S == terminal_buffer_get_contents(saved_rec.buffer)
             IN  terminal_buffer_get_contents(restored'.buffer)
                    = LastN(S \o chunk,
                            Min(Len(S) + Len(chunk), restored.buffer.capacity))]_vars

---------------------------------------------------------------------------
(* SpecDetach: the registry and the clients of Spec, where                 *)
(* persistent_session_detach_connection is also called on its own, on any  *)
(* record and on NULL, whether or not a connection is attached.            *)

\* persistent_session_detach_connection(session) with session the record at
\* address ref, or NULL
DtDetach(ref) ==
    /\ registry.alive
    /\ IF ref = NULL
       THEN /\ detach_returned' = <<FALSE>>
            /\ registry' = registry
       ELSE /\ RecordAt(ref) # 0
            /\ detach_returned' = <<TRUE>>
            /\ registry' = [registry EXCEPT
                               !.sessions[RecordAt(ref)] =
                                   persistent_session_detach_connection(@, now)]
    /\ UNCHANGED <<envVars, config_dir, conns, at_shutdown, id_arg, id_valid, ws_returned, bufVars, codecVars, replayVars, saveVars, errVars>>

DetachNext ==
    \/ Tick
    \/ \E c \in Conns, id \in ClientIds : WsConnect(c, id)
    \/ \E c \in Conns, data \in PtyChunks : PtyOutput(c, data)
    \/ \E c \in Conns : WsDisconnect(c)
    \/ \E ref \in 0..MaxRecords : DtDetach(ref)

SpecDetach == CapInit /\ [][DetachNext]_vars

\* C37: detaching succeeds on any record, attached or not; it leaves the
\* record with no connection, is_active false, needs_save true and
\* last_accessed the clock value, and changes nothing else, so a detach of a
\* record that was detached at the same clock value leaves it as the single
\* detach did; no other record is affected.
C37_DetachIdempotent ==
    [][\A ref \in 1..MaxRecords :
          DtDetach(ref) =>
              LET i == RecordAt(ref)
                  before == registry.sessions[i]
                  after == registry'.sessions[i]
                  once == [before EXCEPT
                              !.current_pss = NULL,
                              !.current_wsi = NULL,
                              !.is_active = FALSE,
                              !.last_accessed = now,
                              !.needs_save = TRUE]
              IN  /\ detach_returned' = <<TRUE>>
                  /\ after = once
                  /\ (/\ before.current_pss = NULL
                      /\ ~before.is_active
                      /\ before.needs_save
                      /\ before.last_accessed = now) => after = before
                  /\ Len(registry'.sessions) = Len(registry.sessions)
                  /\ \A j \in 1..Len(registry.sessions) :
                        j # i => registry'.sessions[j] = registry.sessions[j]
                  /\ registry'.total_count = registry.total_count]_vars

\* a record that a disconnection detached and checkpointed was detached once
\* more: nothing points at it, it is marked for saving again, and the other
\* record of the registry still has its connection
C37_Witness ==
    /\ detach_returned = <<TRUE>>
    /\ \E i, j \in 1..Len(registry.sessions) :
          /\ i # j
          /\ registry.sessions[i].current_pss = NULL
          /\ ~registry.sessions[i].is_active
          /\ registry.sessions[i].needs_save
          /\ registry.sessions[i].save_count > 0
          /\ registry.sessions[i].last_accessed = now
          /\ \A c \in Conns : conns[c].persistent_session # registry.sessions[i].ref
          /\ registry.sessions[j].is_active
          /\ registry.sessions[j].current_pss # NULL

\* C38: when a connection that another connection displaced from a record
\* closes afterwards, the record keeps the connection that is attached to
\* it: current_pss is unchanged and is_active stays true.
C38_StaleDisconnectKeepsAttachment ==
    [][\A c \in Conns :
          (/\ WsDisconnect(c)
           /\ registry.sessions[RecordAt(conns[c].persistent_session)].current_pss
                 \notin {NULL, c})
          => LET ref == conns[c].persistent_session
                 before == registry.sessions[RecordAt(ref)]
                 at == {j \in 1..Len(registry'.sessions) : registry'.sessions[j].ref = ref}
             IN  \A j \in at :
                    /\ registry'.sessions[j].current_pss = before.current_pss
                    /\ registry'.sessions[j].is_active]_vars

\* whether the state file of a session under dir holds the session's
\* present metadata and buffer snapshot
CleanMatchesFile(session, dir) ==
    LET path == persistent_session_get_state_file_path(session.id, dir)
    IN  /\ path \in DOMAIN disk
        /\ LET lines == disk[path].lines
           IN  /\ HeaderValue(lines, "ID", <<>>) = session.id
               /\ HeaderValue(lines, "NAME", <<>>) = session.name
               /\ HeaderValue(lines, "COMMAND", <<>>) = session.command
               /\ HeaderValue(lines, "WORKING_DIR", <<>>) = session.working_directory
               /\ HeaderValue(lines, "CREATED_AT", -1) = session.created_at
               /\ HeaderValue(lines, "LAST_ACCESSED", -1) = session.last_accessed
               /\ HeaderValue(lines, "TERMINAL_COLS", -1) = session.terminal_cols
               /\ HeaderValue(lines, "TERMINAL_ROWS", -1) = session.terminal_rows
               /\ HeaderValue(lines, "PROCESS_PID", -1) = session.process_pid
               /\ HeaderValue(lines, "TOTAL_BYTES", -1) = session.total_bytes_written
               /\ HeaderValue(lines, "SAVE_COUNT", -1) = session.save_count
        /\ disk[path].data = terminal_buffer_get_contents(session.buffer)

\* C39: a record that was checkpointed at least once and has needs_save
\* false, whether it is in the registry or was just loaded from its file,
\* has a state file whose metadata and buffer segment are the record's
\* present metadata and buffer snapshot.
C39_CleanRecordMatchesFile ==
    /\ registry.alive =>
          \A i \in 1..Len(registry.sessions) :
              (registry.sessions[i].save_count > 0 /\ ~registry.sessions[i].needs_save)
                  => CleanMatchesFile(registry.sessions[i], registry.state_directory)
    /\ restored.ref # NULL =>
          ((restored.save_count > 0 /\ ~restored.needs_save)
              => CleanMatchesFile(restored, SESSION_STATE_DIR))
====
